---- MODULE Spec2Model ----
(***************************************************************************)
(* Database scenario validator (test_scenarios_validation.py), as written  *)
(* by src/script_11.py (the earlier validator, "v11") and rewritten by     *)
(* src/script_12.py (the later validator, "v12").                          *)
(*                                                                         *)
(* The state is the artifact corpus the validator reads, the validator's   *)
(* result list, its position in validate_all_scenarios, and what the       *)
(* report generation and main() returned.                                  *)
(***************************************************************************)
EXTENDS Integers, Sequences, FiniteSets, TLC

VARIABLES
    version,        \* which script wrote test_scenarios_validation.py
    fs,             \* the artifact corpus under repo_root
    hash_order,     \* iteration order of the set required_types in this process
                    \* (<<>> until the process first walks the set)
    results,        \* self.results
    db_index,       \* position of the loop over self.scenarios.items()
    pc,             \* next call inside the loop body, or report/main/exit
    report,         \* what the report generation computed and returned
    saved,          \* the write of validation_results.json and its content
    exit_code,      \* <<main()'s return value>>, <<>> until main returns
    found_references,   \* the dict the latest application-code scan built
    first_report,   \* what an earlier validate_all_scenarios call of this
                    \* validator returned, NoReport while there was none
    args,           \* the deploy script's command line "$@"
    FORCE,          \* environment variable FORCE of the deploy script's process
    DRY_RUN,        \* environment variable DRY_RUN of the deploy script's process
    environment,    \* main's local environment
    validate_only,  \* main's local validate_only
    skip_validation,    \* main's local skip_validation
    dry_run,        \* main's local dry_run
    force,          \* main's local force
    REPLY,          \* <<the operator's answer to read -p>>, <<>> when not asked
    sh_pc,          \* the function main is about to call, or exited
    steps,          \* the functions entered and commands run so far, in order
    exit_status,    \* <<the deploy script's exit status>>, <<>> while it runs
    pools,          \* DatabaseService._pools, in insertion order
    connection_info,    \* DatabaseService._connection_info, in insertion order
    tasks,          \* the coroutines that call into the DatabaseService
    calls           \* number of DatabaseService calls started so far

\* the state of a validator process
validatorVars ==
    <<version, fs, hash_order, results, db_index, pc, report, saved, exit_code,
      found_references, first_report>>

\* the state of a run of the deploy script
deployVars ==
    <<args, FORCE, DRY_RUN, environment, validate_only, skip_validation, dry_run,
      force, REPLY, sh_pc, steps, exit_status>>

\* the state of a DatabaseService and its callers
poolVars == <<pools, connection_info, tasks, calls>>

vars == <<validatorVars, deployVars, poolVars>>

\* no deploy script is running
DeployNotStarted ==
    /\ args = <<>> /\ FORCE = "" /\ DRY_RUN = ""
    /\ environment = "" /\ validate_only = FALSE /\ skip_validation = FALSE
    /\ dry_run = FALSE /\ force = FALSE /\ REPLY = <<>>
    /\ sh_pc = "not_started" /\ steps = <<>> /\ exit_status = <<>>

\* no DatabaseService exists
NoService ==
    /\ pools = <<>> /\ connection_info = <<>> /\ tasks = <<>> /\ calls = 0

\* Bound: how many artifacts of one corpus may be unreadable.
MaxUnreadable == 1

\* Bound: length of the result sequences given to the report generation alone.
MaxResults == 3

(***************************************************************************)
(* Policy registry: self.scenarios                                         *)
(***************************************************************************)
\* dict order of self.scenarios
DatabaseOrder ==
    <<"periodic_table", "world_happiness", "titanic",
      "pagila", "chinook", "netflix",
      "employees", "lego", "postgres_air">>

Databases == {DatabaseOrder[i] : i \in 1..Len(DatabaseOrder)}

ScenarioTypes == {"CONFIG_ONLY", "MIXED", "LOGIC_HEAVY"}

\* self.scenarios[database]: scenario type
ScenarioOf(database) ==
    CASE database \in {"periodic_table", "world_happiness", "titanic"} -> "CONFIG_ONLY"
      [] database \in {"pagila", "chinook", "netflix"} -> "MIXED"
      [] OTHER -> "LOGIC_HEAVY"

\* self.scenarios[database]: owner e-mail
OwnerOf(database) ==
    CASE database = "periodic_table" -> "chemistry-team@company.com"
      [] database = "world_happiness" -> "analytics-team@company.com"
      [] database = "titanic" -> "data-science-team@company.com"
      [] database = "pagila" -> "development-team@company.com"
      [] database = "chinook" -> "media-team@company.com"
      [] database = "netflix" -> "content-team@company.com"
      [] database = "employees" -> "hr-team@company.com"
      [] database = "lego" -> "analytics-team@company.com"
      [] OTHER -> "operations-team@company.com"

(***************************************************************************)
(* Text: a file's content is the set of words in it; str.lower() and the   *)
(* substring test `needle in content` work on these words.                 *)
(***************************************************************************)
\* str.lower() on the words that occur in monitor files
Lower(s) ==
    CASE s = "Threshold" -> "threshold"
      [] s = "Alert" -> "alert"
      [] s = "Owner" -> "owner"
      [] s = "CONFIG_ONLY" -> "config_only"
      [] s = "MIXED" -> "mixed"
      [] s = "LOGIC_HEAVY" -> "logic_heavy"
      [] OTHER -> s

\* content.lower()
LowerText(text) == {Lower(t) : t \in text}

\* `needle in content`
Occurs(needle, text) == needle \in text

(***************************************************************************)
(* The corpus.  A file is absent, a readable file with a text, or          *)
(* unreadable: it has a text, and read_text raises (no permission, not     *)
(* UTF-8, a directory of that name).                                       *)
(***************************************************************************)
Absent == [kind |-> "absent", text |-> {}]
Unreadable(text) == [kind |-> "unreadable", text |-> text]
File(text) == [kind |-> "file", text |-> text]

Exists(f) == f.kind # "absent"
Readable(f) == f.kind = "file"

\* Application-code artifacts of the corpus, as paths below repo_root.
AppFiles ==
    { <<"src", "config", "database_connections.py">>,
      <<"src", "services", "database_service.py">>,
      <<"src", "business", "employee_payroll_system.py">>,
      <<"src", "business", ".legacy\\.py">>,
      <<"src", "analytics", ".adhoc\\.py">> }

DirOf(path) == path[2]
NameOf(path) == path[3]

\* fnmatch of a file name against "*.py"
FnmatchStarPy(name) ==
    name \in {"database_connections.py", "database_service.py",
              "employee_payroll_system.py", ".legacy\\.py", ".adhoc\\.py"}

\* fnmatch of a file name against ".*\.py": a leading dot, anything, then the
\* characters backslash, dot, p, y
FnmatchDotStarBackslashPy(name) == name \in {".legacy\\.py", ".adhoc\\.py"}

\* Infrastructure artifacts: the three Terraform files
TfSlots == {"dev", "prod", "module"}

\* Words of a complete monitor file of a database, as script_8 writes it
CompleteMonitor(database) ==
    {database, ScenarioOf(database), "Threshold", "Alert", "Owner", "database_name"}

\* Words of the complete ownership document, as script_10 writes it
CompleteDoc == Databases \cup {OwnerOf(d) : d \in Databases}

\* The corpus the generator scripts write: every database declared in
\* Terraform, monitored, with Helm values and documented; no application code.
GeneratedCorpus ==
    [ app |-> [p \in AppFiles |-> Absent],
      tf |-> [s \in TfSlots |->
                 CASE s = "dev" -> File(Databases)
                   [] s = "prod" -> File({"employees", "lego", "postgres_air"})
                   [] OTHER -> File({})],
      monitor |-> [d \in Databases |-> File(CompleteMonitor(d))],
      helm |-> [d \in Databases |-> TRUE],
      doc |-> File(CompleteDoc) ]

\* The generated corpus with the application code in place: the MIXED and
\* LOGIC_HEAVY databases configured, the MIXED ones served, the LOGIC_HEAVY
\* ones used by business logic and analytics.
ImplementedCorpus ==
    [ GeneratedCorpus EXCEPT
        !.app = [p \in AppFiles |->
                   CASE DirOf(p) = "config" ->
                            File({"pagila", "chinook", "netflix", "employees", "lego", "postgres_air"})
                     [] DirOf(p) = "services" -> File({"pagila", "chinook", "netflix"})
                     [] NameOf(p) = ".legacy\\.py" -> Absent
                     [] OTHER -> File({"employees", "lego", "postgres_air"})] ]

BaseCorpora == {GeneratedCorpus, ImplementedCorpus}

\* The implemented corpus after two databases drifted into business logic
\* that their scenarios forbid
DriftedCorpus ==
    [ ImplementedCorpus EXCEPT
        !.app[<<"src", "business", "employee_payroll_system.py">>] =
            File({"employees", "lego", "postgres_air", "titanic", "pagila"}) ]

\* Number of unreadable artifacts of a corpus
UnreadableCount(c) ==
    Cardinality({p \in AppFiles : c.app[p].kind = "unreadable"})
    + Cardinality({s \in TfSlots : c.tf[s].kind = "unreadable"})
    + Cardinality({d \in Databases : c.monitor[d].kind = "unreadable"})
    + (IF c.doc.kind = "unreadable" THEN 1 ELSE 0)

\* Corpora whose application code varies: each file absent, unreadable, or
\* naming the database d
AppCorpora(d) ==
    { [GeneratedCorpus EXCEPT !.app = a] :
        a \in [AppFiles -> {Absent, Unreadable({d}), File({d})}] }

\* Corpora whose Terraform files vary for the database d
InfraCorpora(d) ==
    { [base EXCEPT !.tf = t] :
        base \in BaseCorpora,
        t \in [TfSlots -> {Absent, Unreadable(Databases), File(Databases),
                           File(Databases \ {d})}] }

\* Corpora whose monitor, Helm values and ownership document vary for d
MonitorVariants(d) ==
    { Absent, Unreadable(CompleteMonitor(d)), File(CompleteMonitor(d)) }
    \cup { File(CompleteMonitor(d) \ {w}) :
             w \in {"Threshold", "Owner", "database_name", ScenarioOf(d)} }

DocVariants(d) ==
    { Absent, Unreadable(CompleteDoc), File(CompleteDoc),
      File(CompleteDoc \ {d}), File(CompleteDoc \ {OwnerOf(d)}) }

OpsCorpora(d) ==
    { [base EXCEPT !.monitor[d] = m, !.helm[d] = h, !.doc = dc] :
        base \in BaseCorpora,
        m \in MonitorVariants(d), h \in BOOLEAN, dc \in DocVariants(d) }

\* The databases whose artifacts vary: one of each scenario
Subjects == {"periodic_table", "pagila", "lego"}

Corpora ==
    { c \in UNION { AppCorpora(d) \cup InfraCorpora(d) \cup OpsCorpora(d) : d \in Subjects } :
        UnreadableCount(c) <= MaxUnreadable }
    \cup {DriftedCorpus}

(***************************************************************************)
(* Results                                                                 *)
(***************************************************************************)
\* One entry of a result's details list: the fixed words of the string, and
\* what the f-string interpolates into it
Detail(text, items) == [text |-> text, items |-> items, count |-> 0, path |-> <<>>]
DetailCount(text, n) == [text |-> text, items |-> <<>>, count |-> n, path |-> <<>>]
DetailPath(text, group, path) == [text |-> text, items |-> <<group>>, count |-> 0, path |-> path]

\* ValidationResult(...)
ValidationResult(database, scenario, check_name, status, violation_type, message, details, file_refs) ==
    [ database |-> database, scenario |-> scenario, check_name |-> check_name,
      status |-> status, violation_type |-> violation_type, message |-> message,
      details |-> details, file_references |-> file_refs ]

\* Mutant of AddResult: the newest result is put first
AddResult_Prepends(rs, r) == <<r>> \o rs

\* Mutant of AddResult: only problems are recorded
AddResult_SkipsPass(rs, r) == IF r.status = "PASS" THEN rs ELSE Append(rs, r)

\* self.results.append(result) in _add_result
AddResult(rs, r) == Append(rs, r)

(***************************************************************************)
(* Sequence helpers                                                        *)
(***************************************************************************)
\* All orders in which an enumeration can yield the members of S
Perms(S) ==
    { s \in [1..Cardinality(S) -> S] : \A i, j \in 1..Cardinality(S) : s[i] = s[j] => i = j }

RECURSIVE Concat(_)
\* sum(list_of_lists, [])
Concat(ss) == IF ss = <<>> THEN <<>> ELSE Head(ss) \o Concat(Tail(ss))

Range(s) == {s[i] : i \in 1..Len(s)}

(***************************************************************************)
(* Application-code scan                                                   *)
(***************************************************************************)
\* app_code_files / app_code_patterns: code types in list order
CodeTypeOrder == <<"configuration", "service_layer", "business_logic", "analytics">>
CodeTypes == Range(CodeTypeOrder)

\* directory scanned for a code type
DirOfType(t) ==
    CASE t = "configuration" -> "config"
      [] t = "service_layer" -> "services"
      [] t = "business_logic" -> "business"
      [] OTHER -> "analytics"

\* full_path.rglob("*.py") and repo_root.glob("src/<dir>/**/*.py"): the files
\* an enumeration of the directory yields
RglobPy(dir) ==
    {p \in AppFiles : DirOf(p) = dir /\ Exists(fs.app[p]) /\ FnmatchStarPy(NameOf(p))}

\* repo_root.glob(r"src/<dir>/.*\.py"): glob reads the pattern as a shell
\* pattern, not as a regular expression
GlobRegexLike(dir) ==
    {p \in AppFiles : DirOf(p) = dir /\ Exists(fs.app[p])
                      /\ FnmatchDotStarBackslashPy(NameOf(p))}

\* The file system yields the files of a directory in any order: one
\* enumeration order for every directory, given the files each glob yields
Enumerations(config, services, business, analytics) ==
    { [t \in CodeTypes |->
          CASE t = "configuration" -> e1 [] t = "service_layer" -> e2
            [] t = "business_logic" -> e3 [] OTHER -> e4] :
        e1 \in Perms(config), e2 \in Perms(services),
        e3 \in Perms(business), e4 \in Perms(analytics) }

\* the enumerations of rglob("*.py") / glob("src/<dir>/**/*.py")
RglobEnumerations ==
    Enumerations(RglobPy("config"), RglobPy("services"), RglobPy("business"), RglobPy("analytics"))

\* the enumerations of glob(r"src/<dir>/.*\.py")
RegexGlobEnumerations ==
    Enumerations(GlobRegexLike("config"), GlobRegexLike("services"),
                 GlobRegexLike("business"), GlobRegexLike("analytics"))

\* found_references of the v12 scan: files whose text was read and names the
\* database, per code type, in enumeration order; read errors are skipped
FoundReferences12(database, enum) ==
    [ t \in CodeTypes |->
        SelectSeq(enum[t], LAMBDA p : Readable(fs.app[p]) /\ Occurs(database, fs.app[p].text)) ]

\* Mutant of Dict: every code type is a key, with [] when nothing matched
Dict_EveryTypeAKey(found) == [t \in CodeTypes |-> found[t]]

\* found_references as the dict it is: a code type is a key once a file was
\* recorded under it, and only then
Dict(found) == [t \in {u \in CodeTypes : found[u] # <<>>} |-> found[t]]

\* found_references = {}
NoReferences == [t \in {} |-> <<>>]

\* list(found_references.keys()): a key exists once a file was recorded
Keys(found) == SelectSeq(CodeTypeOrder, LAMBDA t : found[t] # <<>>)

\* [found[k] for k in ks]
Values(found, ks) == [i \in 1..Len(ks) |-> found[ks[i]]]

\* allowed_types, forbidden_types, required_types
AllowedTypes == {"configuration", "service_layer"}
\* Mutant of ForbiddenTypes: forbidden_types lacks "analytics"
ForbiddenTypes_ForgetsAnalytics == {"business_logic"}

ForbiddenTypes == {"business_logic", "analytics"}
RequiredTypes == {"business_logic", "analytics"}

\* Mutant of ConfigOnlyPurity12: file_references holds the files of the first
\* offending code type only
ConfigOnlyPurity12_FirstTypeOnly(database, found) ==
    IF Keys(found) # <<>>
    THEN ValidationResult(database, "CONFIG_ONLY", "config_only_purity", "FAIL", "CRITICAL",
             "Config-only database has application code references",
             <<Detail("Found in", Keys(found))>>,
             found[Keys(found)[1]])
    ELSE ValidationResult(database, "CONFIG_ONLY", "config_only_purity", "PASS", "INFO",
             "No application code references (correct)", <<>>, <<>>)

\* the CONFIG_ONLY branch of _validate_scenario_separation
ConfigOnlyPurity12(database, found) ==
    IF Keys(found) # <<>>
    THEN ValidationResult(database, "CONFIG_ONLY", "config_only_purity", "FAIL", "CRITICAL",
             "Config-only database has application code references",
             <<Detail("Found in", Keys(found))>>,
             Concat(Values(found, Keys(found))))
    ELSE ValidationResult(database, "CONFIG_ONLY", "config_only_purity", "PASS", "INFO",
             "No application code references (correct)", <<>>, <<>>)

\* Mutant of MixedScenarioRules12: only a service-layer reference counts as
\* allowed evidence
MixedScenarioRules12_RequiresServiceLayer(database, found) ==
    LET violations == SelectSeq(Keys(found), LAMBDA t : t \in ForbiddenTypes)
        has_allowed == found["service_layer"] # <<>>
    IN  IF violations # <<>>
        THEN ValidationResult(database, "MIXED", "mixed_scenario_rules", "FAIL", "CRITICAL",
                 "Mixed scenario has forbidden business logic",
                 <<Detail("Found forbidden", violations)>>,
                 Concat(Values(found, violations)))
        ELSE IF has_allowed
        THEN ValidationResult(database, "MIXED", "mixed_scenario_rules", "PASS", "INFO",
                 "Mixed scenario properly implemented",
                 <<Detail("Found allowed", Keys(found))>>, <<>>)
        ELSE ValidationResult(database, "MIXED", "mixed_scenario_rules", "WARNING", "WARNING",
                 "Mixed scenario has no service layer",
                 <<Detail("Should have configuration and service references", <<>>)>>, <<>>)

\* the MIXED branch of _validate_scenario_separation
MixedScenarioRules12(database, found) ==
    LET violations == SelectSeq(Keys(found), LAMBDA t : t \in ForbiddenTypes)
        has_allowed == \E t \in AllowedTypes : found[t] # <<>>
    IN  IF violations # <<>>
        THEN ValidationResult(database, "MIXED", "mixed_scenario_rules", "FAIL", "CRITICAL",
                 "Mixed scenario has forbidden business logic",
                 <<Detail("Found forbidden", violations)>>,
                 Concat(Values(found, violations)))
        ELSE IF has_allowed
        THEN ValidationResult(database, "MIXED", "mixed_scenario_rules", "PASS", "INFO",
                 "Mixed scenario properly implemented",
                 <<Detail("Found allowed", Keys(found))>>, <<>>)
        ELSE ValidationResult(database, "MIXED", "mixed_scenario_rules", "WARNING", "WARNING",
                 "Mixed scenario has no service layer",
                 <<Detail("Should have configuration and service references", <<>>)>>, <<>>)

\* Mutant of LogicHeavyComplexity12: missing logic is a FAIL of severity
\* WARNING
LogicHeavyComplexity12_FailWarning(database, found, order) ==
    LET missing_types == SelectSeq(order, LAMBDA t : found[t] = <<>>)
    IN  IF missing_types # <<>>
        THEN ValidationResult(database, "LOGIC_HEAVY", "logic_heavy_complexity", "FAIL", "WARNING",
                 "Logic-heavy scenario missing complex logic",
                 <<Detail("Missing", missing_types)>>, <<>>)
        ELSE ValidationResult(database, "LOGIC_HEAVY", "logic_heavy_complexity", "PASS", "INFO",
                 "Logic-heavy scenario properly implemented",
                 <<Detail("Found", Keys(found))>>, <<>>)

\* the LOGIC_HEAVY branch of _validate_scenario_separation; the list
\* comprehension walks the set required_types in the process's hash order
LogicHeavyComplexity12(database, found, order) ==
    LET missing_types == SelectSeq(order, LAMBDA t : found[t] = <<>>)
    IN  IF missing_types # <<>>
        THEN ValidationResult(database, "LOGIC_HEAVY", "logic_heavy_complexity", "WARNING", "WARNING",
                 "Logic-heavy scenario missing complex logic",
                 <<Detail("Missing", missing_types)>>, <<>>)
        ELSE ValidationResult(database, "LOGIC_HEAVY", "logic_heavy_complexity", "PASS", "INFO",
                 "Logic-heavy scenario properly implemented",
                 <<Detail("Found", Keys(found))>>, <<>>)

\* the result _validate_scenario_separation appends
SeparationResult12(database, found, order) ==
    CASE ScenarioOf(database) = "CONFIG_ONLY" -> ConfigOnlyPurity12(database, found)
      [] ScenarioOf(database) = "MIXED" -> MixedScenarioRules12(database, found)
      [] OTHER -> LogicHeavyComplexity12(database, found, order)

(***************************************************************************)
(* v12: infrastructure and monitoring checks                               *)
(***************************************************************************)
\* terraform_patterns
TerraformPatterns ==
    {"terraform_*_databases.tf", "terraform_*_critical_databases.tf", "terraform_module_*.tf"}

\* Name of a Terraform file below repo_root in the layout v12 globs
TfName12(slot) ==
    CASE slot = "dev" -> "terraform_dev_databases.tf"
      [] slot = "prod" -> "terraform_prod_critical_databases.tf"
      [] OTHER -> "terraform_module_main.tf"

\* fnmatch of a Terraform file name against one of terraform_patterns
FnmatchTf(pattern, name) ==
    CASE pattern = "terraform_*_databases.tf" ->
             name \in {"terraform_dev_databases.tf", "terraform_prod_critical_databases.tf"}
      [] pattern = "terraform_*_critical_databases.tf" ->
             name = "terraform_prod_critical_databases.tf"
      [] OTHER -> name = "terraform_module_main.tf"

\* terraform_found after the loops over patterns and matches: some matched
\* file was read and names the database; a file that cannot be read is skipped
TerraformFound12(database) ==
    \E pattern \in TerraformPatterns : \E slot \in TfSlots :
        /\ Exists(fs.tf[slot])
        /\ FnmatchTf(pattern, TfName12(slot))
        /\ Readable(fs.tf[slot])
        /\ Occurs(database, fs.tf[slot].text)

\* Mutant of TerraformConfig12: a CONFIG_ONLY (low-criticality) database is
\* not required to be declared in Terraform
TerraformConfig12_LowCriticalityExempt(database) ==
    IF TerraformFound12(database) \/ ScenarioOf(database) = "CONFIG_ONLY"
    THEN ValidationResult(database, ScenarioOf(database), "terraform_config", "PASS", "INFO",
             "Terraform configuration found", <<>>, <<>>)
    ELSE ValidationResult(database, ScenarioOf(database), "terraform_config", "FAIL", "CRITICAL",
             "No Terraform configuration found", <<>>, <<>>)

\* the terraform_config result of _validate_infrastructure_files
TerraformConfig12(database) ==
    IF TerraformFound12(database)
    THEN ValidationResult(database, ScenarioOf(database), "terraform_config", "PASS", "INFO",
             "Terraform configuration found", <<>>, <<>>)
    ELSE ValidationResult(database, ScenarioOf(database), "terraform_config", "FAIL", "CRITICAL",
             "No Terraform configuration found", <<>>, <<>>)

\* the helm_config result (both validators: only the file's existence counts)
HelmConfig(database, file_refs) ==
    IF fs.helm[database]
    THEN ValidationResult(database, ScenarioOf(database), "helm_config", "PASS", "INFO",
             "Helm configuration found", <<>>, file_refs)
    ELSE ValidationResult(database, ScenarioOf(database), "helm_config", "WARNING", "WARNING",
             "No Helm configuration found", <<>>, <<>>)

\* str(monitor_file) in v12: datadog_monitor_<database>.yaml
MonitorPath12(database) == <<"datadog_monitor", database>>

\* required_elements of _validate_monitoring_setup, in list order
RequiredElements12(database) ==
    <<ScenarioOf(database), "threshold", "alert", "database_name">>

\* [elem for elem in required if elem.lower() not in content.lower()]
MissingElements(required, text) ==
    SelectSeq(required, LAMBDA elem : ~Occurs(Lower(elem), LowerText(text)))

\* Mutant of MonitoringSetup12: a missing monitor file is only a warning
MonitoringSetup12_SoftAbsence(database) ==
    LET f == fs.monitor[database]
        missing == MissingElements(RequiredElements12(database), f.text)
    IN  IF Exists(f)
        THEN IF ~Readable(f)
             THEN ValidationResult(database, ScenarioOf(database), "monitoring_config",
                      "WARNING", "WARNING", "Error reading monitor config", <<>>, <<>>)
             ELSE IF missing # <<>>
             THEN ValidationResult(database, ScenarioOf(database), "monitoring_config",
                      "WARNING", "WARNING", "Monitoring config incomplete",
                      <<Detail("Missing", missing)>>, <<MonitorPath12(database)>>)
             ELSE ValidationResult(database, ScenarioOf(database), "monitoring_config",
                      "PASS", "INFO", "Monitoring properly configured",
                      <<>>, <<MonitorPath12(database)>>)
        ELSE ValidationResult(database, ScenarioOf(database), "monitoring_config",
                 "WARNING", "WARNING", "No monitoring configuration found", <<>>, <<>>)

\* the result _validate_monitoring_setup appends
MonitoringSetup12(database) ==
    LET f == fs.monitor[database]
        missing == MissingElements(RequiredElements12(database), f.text)
    IN  IF Exists(f)
        THEN IF ~Readable(f)
             THEN ValidationResult(database, ScenarioOf(database), "monitoring_config",
                      "WARNING", "WARNING", "Error reading monitor config", <<>>, <<>>)
             ELSE IF missing # <<>>
             THEN ValidationResult(database, ScenarioOf(database), "monitoring_config",
                      "WARNING", "WARNING", "Monitoring config incomplete",
                      <<Detail("Missing", missing)>>, <<MonitorPath12(database)>>)
             ELSE ValidationResult(database, ScenarioOf(database), "monitoring_config",
                      "PASS", "INFO", "Monitoring properly configured",
                      <<>>, <<MonitorPath12(database)>>)
        ELSE ValidationResult(database, ScenarioOf(database), "monitoring_config",
                 "FAIL", "CRITICAL", "No monitoring configuration found", <<>>, <<>>)

(***************************************************************************)
(* Report generation                                                       *)
(***************************************************************************)
Statuses == {"PASS", "FAIL", "WARNING"}

\* status_counts after the counting loop
StatusCounts(rs) ==
    [st \in Statuses |-> Cardinality({i \in 1..Len(rs) : rs[i].status = st})]

\* Mutant of CriticalFailures: every FAIL counts, whatever its severity
CriticalFailures_AnyFail(rs) == SelectSeq(rs, LAMBDA r : r.status = "FAIL")

\* Mutant of CriticalFailures: the newest critical failure comes first
CriticalFailures_NewestFirst(rs) ==
    LET c == SelectSeq(rs, LAMBDA r : r.status = "FAIL" /\ r.violation_type = "CRITICAL")
    IN  [k \in 1..Len(c) |-> c[Len(c) + 1 - k]]

\* critical_failures = [r for r in results if FAIL and CRITICAL]
CriticalFailures(rs) ==
    SelectSeq(rs, LAMBDA r : r.status = "FAIL" /\ r.violation_type = "CRITICAL")

\* the value the report generation returns
ReportSuccess(rs) == CriticalFailures(rs) = <<>>

\* the summary the report generation computes
Report(rs) ==
    [ generated |-> TRUE,
      status_counts |-> StatusCounts(rs),
      total |-> Len(rs),
      critical_failures |-> CriticalFailures(rs),
      success |-> ReportSuccess(rs) ]

\* compliance_rate as printed with one decimal, in tenths of a percent:
\* passes / total * 100 rounded to the nearest tenth, 0 when total is 0 (the
\* totals of the model are no multiples of 16, so no value lies halfway
\* between two tenths)
ComplianceRate(passes, total) ==
    IF total > 0 THEN (2000 * passes + total) \div (2 * total) ELSE 0

\* Mutant of ScenarioCompliance: total counts the results of every scenario
ScenarioCompliance_OverAllResults(rs) ==
    [ scenario_type \in ScenarioTypes |->
        LET scenario_results == SelectSeq(rs, LAMBDA r : r.scenario = scenario_type)
            passes == Len(SelectSeq(scenario_results, LAMBDA r : r.status = "PASS"))
            total == Len(rs)
        IN  [ passes |-> passes, total |-> total,
              compliance_rate |-> ComplianceRate(passes, total) ] ]

\* the scenario compliance summary of _generate_validation_report
ScenarioCompliance(rs) ==
    [ scenario_type \in ScenarioTypes |->
        LET scenario_results == SelectSeq(rs, LAMBDA r : r.scenario = scenario_type)
            passes == Len(SelectSeq(scenario_results, LAMBDA r : r.status = "PASS"))
            total == Len(scenario_results)
        IN  [ passes |-> passes, total |-> total,
              compliance_rate |-> ComplianceRate(passes, total) ] ]

\* the summary _generate_validation_report computes: the later validator's
\* summary and the scenario compliance
Report11(rs) ==
    [ generated |-> TRUE,
      status_counts |-> StatusCounts(rs),
      total |-> Len(rs),
      critical_failures |-> CriticalFailures(rs),
      success |-> ReportSuccess(rs),
      scenario_compliance |-> ScenarioCompliance(rs) ]

\* results_data: the records serialized to validation_results.json
ResultsData(rs) ==
    [ i \in 1..Len(rs) |->
        [ database |-> rs[i].database, scenario |-> rs[i].scenario,
          check |-> rs[i].check_name, status |-> rs[i].status,
          violation_type |-> rs[i].violation_type, message |-> rs[i].message,
          details |-> rs[i].details, files |-> rs[i].file_references ] ]

\* report before the report generation ran
NoReport ==
    [ generated |-> FALSE, status_counts |-> [st \in Statuses |-> 0], total |-> 0,
      critical_failures |-> <<>>, success |-> FALSE ]

\* validation_results.json: not yet written, written with data, or the write failed
NotSaved == [state |-> "none", data |-> <<>>]
Saved(data) == [state |-> "written", data |-> data]
WriteFailed == [state |-> "write_failed", data |-> <<>>]

\* Orders in which this process walks the set required_types: fixed by the
\* process's string hashing, seen when the set is first walked
HashOrders == IF hash_order = <<>> THEN Perms(RequiredTypes) ELSE {hash_order}

\* Mutant of ExitCode12: the two exit codes swapped
ExitCode12_Swapped(success) == IF success THEN 1 ELSE 0

\* exit_code = 0 if success else 1
ExitCode12(success) == IF success THEN 0 ELSE 1

(***************************************************************************)
(* v12: validate_all_scenarios, _generate_report, main                     *)
(***************************************************************************)
\* Mutant of CurrentDb: the loop walks the registry sorted by name
CurrentDb_SortedByName ==
    <<"chinook", "employees", "lego", "netflix", "pagila", "periodic_table",
      "postgres_air", "titanic", "world_happiness">>[db_index]

\* the database of the current loop iteration
CurrentDb == DatabaseOrder[db_index]

\* end of one loop iteration: next database, or leave the loop
NextIteration(first_check, after_loop) ==
    IF db_index < Len(DatabaseOrder)
    THEN /\ db_index' = db_index + 1
         /\ pc' = first_check
    ELSE /\ db_index' = db_index
         /\ pc' = after_loop

ValidateScenarioSeparation12 ==
    /\ version = "v12"
    /\ pc = "validate_scenario_separation"
    /\ \E enum \in RglobEnumerations :
       \E order \in (IF ScenarioOf(CurrentDb) = "LOGIC_HEAVY" THEN HashOrders ELSE {hash_order}) :
          /\ found_references' = Dict(FoundReferences12(CurrentDb, enum))
          /\ results' = AddResult(results,
                            SeparationResult12(CurrentDb, FoundReferences12(CurrentDb, enum),
                                               order))
          /\ hash_order' = order
    /\ pc' = "validate_infrastructure_files"
    /\ UNCHANGED <<version, fs, db_index, report, saved, exit_code, first_report, deployVars, poolVars>>

ValidateInfrastructureFiles12 ==
    /\ version = "v12"
    /\ pc = "validate_infrastructure_files"
    /\ results' = AddResult(AddResult(results, TerraformConfig12(CurrentDb)),
                            HelmConfig(CurrentDb, <<>>))
    /\ pc' = "validate_monitoring_setup"
    /\ UNCHANGED <<version, fs, hash_order, db_index, report, saved, exit_code, found_references, first_report, deployVars, poolVars>>

ValidateMonitoringSetup12 ==
    /\ version = "v12"
    /\ pc = "validate_monitoring_setup"
    /\ results' = AddResult(results, MonitoringSetup12(CurrentDb))
    /\ NextIteration("validate_scenario_separation", "generate_report")
    /\ UNCHANGED <<version, fs, hash_order, report, saved, exit_code, found_references, first_report, deployVars, poolVars>>

\* Mutant of GenerateReport12: the write of validation_results.json is not
\* inside try/except, a failed write ends the process with a traceback
GenerateReport12_WriteRaises ==
    /\ version = "v12"
    /\ pc = "generate_report"
    /\ \/ /\ report' = Report(results)
          /\ saved' = Saved(ResultsData(results))
          /\ pc' = "main_return"
       \/ /\ report' = report
          /\ saved' = WriteFailed
          /\ pc' = "crashed"
    /\ UNCHANGED <<version, fs, hash_order, results, db_index, exit_code, found_references, first_report, deployVars, poolVars>>

\* Mutant of GenerateReport12: the report generation keeps only the critical
\* failures in self.results
GenerateReport12_KeepsFailures ==
    /\ version = "v12"
    /\ pc = "generate_report"
    /\ report' = Report(results)
    /\ results' = CriticalFailures(results)
    /\ saved' \in {Saved(ResultsData(results)), WriteFailed}
    /\ pc' = "main_return"
    /\ UNCHANGED <<version, fs, hash_order, db_index, exit_code, found_references, first_report, deployVars, poolVars>>

\* _generate_report: the write of validation_results.json is inside try/except,
\* so it either happens or is reported and skipped
GenerateReport12 ==
    /\ version = "v12"
    /\ pc = "generate_report"
    /\ report' = Report(results)
    /\ saved' \in {Saved(ResultsData(results)), WriteFailed}
    /\ pc' = "main_return"
    /\ UNCHANGED <<version, fs, hash_order, results, db_index, exit_code, found_references, first_report, deployVars, poolVars>>

Main12 ==
    /\ version = "v12"
    /\ pc = "main_return"
    /\ exit_code' = <<ExitCode12(report.success)>>
    /\ pc' = "exited"
    /\ UNCHANGED <<version, fs, hash_order, results, db_index, report, saved, found_references, first_report, deployVars, poolVars>>

(***************************************************************************)
(* v11: the earlier validator.  Its read_text calls are not inside         *)
(* try/except (the monitor's excepted): a file that cannot be read raises  *)
(* out of validate_all_scenarios and main, and the process ends.           *)
(***************************************************************************)
\* terraform_files, in list order
TfOrder11 == <<"dev", "prod", "module">>

\* the tf_file strings of terraform_files
TfPath11(slot) ==
    CASE slot = "dev" -> <<"terraform", "environments", "dev", "databases.tf">>
      [] slot = "prod" -> <<"terraform", "environments", "prod", "critical_databases.tf">>
      [] OTHER -> <<"terraform", "modules", "database", "main.tf">>

\* _validate_terraform_configuration raises: an existing file cannot be read
TerraformRaises11 == \E slot \in TfSlots : Exists(fs.tf[slot]) /\ ~Readable(fs.tf[slot])

\* found_references of _validate_terraform_configuration
TerraformReferences11(database) ==
    LET hits == SelectSeq(TfOrder11,
                    LAMBDA slot : Exists(fs.tf[slot]) /\ Occurs(database, fs.tf[slot].text))
    IN  [i \in 1..Len(hits) |-> TfPath11(hits[i])]

\* the result _validate_terraform_configuration appends
TerraformConfig11(database) ==
    LET tf_references == TerraformReferences11(database)
    IN  IF tf_references # <<>>
        THEN ValidationResult(database, ScenarioOf(database), "terraform_config", "PASS", "INFO",
                 "Terraform configurations found",
                 <<DetailCount("Found in files", Len(tf_references))>>, tf_references)
        ELSE ValidationResult(database, ScenarioOf(database), "terraform_config", "FAIL", "CRITICAL",
                 "No Terraform configurations found",
                 <<Detail("Database must have infrastructure definitions", <<>>)>>, <<>>)

\* a scan that reads every enumerated file raises: one of them cannot be read
ScanRaises11(enum, types) ==
    \E t \in types : \E i \in 1..Len(enum[t]) : ~Readable(fs.app[enum[t][i]])

\* code_references of _validate_application_code_rules
CodeReferences11(database, enum) ==
    [ t \in CodeTypes |->
        SelectSeq(enum[t], LAMBDA p : Occurs(database, fs.app[p].text)) ]

\* the CONFIG_ONLY branch of _validate_application_code_rules
CodeSeparationConfigOnly11(database, refs) ==
    IF Keys(refs) # <<>>
    THEN ValidationResult(database, "CONFIG_ONLY", "code_separation", "FAIL", "CRITICAL",
             "Config-only database has application code references",
             <<Detail("Found in", Keys(refs))>>,
             Concat(Values(refs, Keys(refs))))
    ELSE ValidationResult(database, "CONFIG_ONLY", "code_separation", "PASS", "INFO",
             "No application code references (correct)",
             <<Detail("Config-only scenario properly implemented", <<>>)>>, <<>>)

\* the MIXED branch of _validate_application_code_rules
CodeSeparationMixed11(database, refs) ==
    LET offending == SelectSeq(Keys(refs), LAMBDA t : t \in ForbiddenTypes)
        violations == [i \in 1..Len(offending) |-> Detail("Found references", <<offending[i]>>)]
    IN  IF violations # <<>>
        THEN ValidationResult(database, "MIXED", "code_separation", "FAIL", "CRITICAL",
                 "Mixed scenario has forbidden business logic",
                 violations, Concat(Values(refs, Keys(refs))))
        ELSE ValidationResult(database, "MIXED", "code_separation", "PASS", "INFO",
                 "Mixed scenario properly implemented",
                 <<Detail("Found allowed types", Keys(refs))>>, <<>>)

\* the LOGIC_HEAVY branch of _validate_application_code_rules
CodeSeparationLogicHeavy11(database, refs, order) ==
    LET missing_types == SelectSeq(order, LAMBDA t : refs[t] = <<>>)
    IN  IF missing_types # <<>>
        THEN ValidationResult(database, "LOGIC_HEAVY", "code_separation", "FAIL", "WARNING",
                 "Logic-heavy scenario missing required code types",
                 <<Detail("Missing", missing_types)>>, <<>>)
        ELSE ValidationResult(database, "LOGIC_HEAVY", "code_separation", "PASS", "INFO",
                 "Logic-heavy scenario properly implemented",
                 <<Detail("Found all required types", Keys(refs))>>, <<>>)

\* the result _validate_application_code_rules appends
CodeSeparation11(database, refs, order) ==
    CASE ScenarioOf(database) = "CONFIG_ONLY" -> CodeSeparationConfigOnly11(database, refs)
      [] ScenarioOf(database) = "MIXED" -> CodeSeparationMixed11(database, refs)
      [] OTHER -> CodeSeparationLogicHeavy11(database, refs, order)

\* str(monitor_file) in v11
MonitorPath11(database) == <<"monitoring", "database-monitors", database, "_monitor.yaml">>

\* required_elements of _validate_monitoring_configuration, in list order
RequiredElements11(database) == <<"threshold", "alert", "owner", ScenarioOf(database)>>

\* the result _validate_monitoring_configuration appends
MonitoringConfiguration11(database) ==
    LET f == fs.monitor[database]
        missing == MissingElements(RequiredElements11(database), f.text)
    IN  IF Exists(f)
        THEN IF ~Readable(f)
             THEN ValidationResult(database, ScenarioOf(database), "monitoring_config",
                      "FAIL", "WARNING", "Monitoring config error",
                      <<>>, <<MonitorPath11(database)>>)
             ELSE IF missing # <<>>
             THEN ValidationResult(database, ScenarioOf(database), "monitoring_config",
                      "WARNING", "WARNING", "Monitoring config incomplete",
                      <<Detail("Missing", missing)>>, <<MonitorPath11(database)>>)
             ELSE ValidationResult(database, ScenarioOf(database), "monitoring_config",
                      "PASS", "INFO", "Monitoring properly configured",
                      <<>>, <<MonitorPath11(database)>>)
        ELSE ValidationResult(database, ScenarioOf(database), "monitoring_config",
                 "FAIL", "CRITICAL", "No monitoring configuration found", <<>>, <<>>)

\* str(helm_file) in v11
HelmPath11(database) == <<"helm-charts", database, "values.yaml">>

\* str(doc_file)
DocPath == <<"docs", "database-ownership.md">>

\* the result _validate_documentation appends (the document is readable)
Documentation11(database) ==
    IF Exists(fs.doc)
    THEN IF Occurs(database, fs.doc.text) /\ Occurs(OwnerOf(database), fs.doc.text)
         THEN ValidationResult(database, ScenarioOf(database), "documentation", "PASS", "INFO",
                  "Documentation complete", <<>>, <<DocPath>>)
         ELSE ValidationResult(database, ScenarioOf(database), "documentation",
                  "WARNING", "WARNING", "Documentation incomplete",
                  <<Detail("Missing database or owner info", <<>>)>>, <<DocPath>>)
    ELSE ValidationResult(database, ScenarioOf(database), "documentation", "FAIL", "CRITICAL",
             "No documentation found", <<>>, <<>>)

\* file groups of _validate_config_only_rules, in list order
PurityGroups11 == <<"service_layer", "business_logic", "analytics">>

\* group_name of a file group
GroupName11(t) ==
    CASE t = "service_layer" -> "service"
      [] t = "business_logic" -> "business"
      [] OTHER -> "analytics"

\* violations of _validate_config_only_rules
PurityViolations11(database, enum) ==
    LET per_group ==
            [ i \in 1..Len(PurityGroups11) |->
                LET t == PurityGroups11[i]
                    hits == SelectSeq(enum[t], LAMBDA p : Occurs(database, fs.app[p].text))
                IN  [j \in 1..Len(hits) |->
                        DetailPath("Found reference in", GroupName11(t), hits[j])] ]
    IN  Concat(per_group)

\* the result _validate_config_only_rules appends
ConfigOnlyPurity11(database, enum) ==
    LET violations == PurityViolations11(database, enum)
    IN  IF violations # <<>>
        THEN ValidationResult(database, "CONFIG_ONLY", "config_only_purity", "FAIL", "CRITICAL",
                 "Config-only database has code references", violations, <<>>)
        ELSE ValidationResult(database, "CONFIG_ONLY", "config_only_purity", "PASS", "INFO",
                 "Config-only purity maintained", <<>>, <<>>)

RECURSIVE AnyNames(_, _)
\* any(database in f.read_text() for f in files if f.exists()): reads the files
\* in enumeration order and stops at the first that names the database;
\* "raise" when a file that cannot be read comes before that
AnyNames(database, files) ==
    IF files = <<>> THEN "false"
    ELSE IF ~Readable(fs.app[Head(files)]) THEN "raise"
    ELSE IF Occurs(database, fs.app[Head(files)].text) THEN "true"
    ELSE AnyNames(database, Tail(files))

\* the result _validate_mixed_scenario_rules appends
MixedScenarioStructure11(database, has_config, has_service) ==
    IF has_config /\ has_service
    THEN ValidationResult(database, "MIXED", "mixed_scenario_structure", "PASS", "INFO",
             "Mixed scenario properly structured",
             <<Detail("Has both config and service layer", <<>>)>>, <<>>)
    ELSE ValidationResult(database, "MIXED", "mixed_scenario_structure", "WARNING", "WARNING",
             "Mixed scenario incomplete",
             <<Detail("Missing",
                  (IF has_config THEN <<>> ELSE <<"configuration">>)
                  \o (IF has_service THEN <<>> ELSE <<"service layer">>))>>, <<>>)

\* the result _validate_logic_heavy_rules appends
LogicHeavyComplexity11(database, has_business, has_analytics) ==
    IF has_business \/ has_analytics
    THEN ValidationResult(database, "LOGIC_HEAVY", "logic_heavy_complexity", "PASS", "INFO",
             "Logic-heavy scenario properly implemented",
             <<Detail("Has",
                  (IF has_business THEN <<"business logic">> ELSE <<>>)
                  \o (IF has_analytics THEN <<"analytics">> ELSE <<>>))>>, <<>>)
    ELSE ValidationResult(database, "LOGIC_HEAVY", "logic_heavy_complexity", "FAIL", "CRITICAL",
             "Logic-heavy scenario lacks complex logic",
             <<Detail("Missing business logic and analytics", <<>>)>>, <<>>)

\* exit_code = 1 if critical_failures else 0
ExitCode11(rs) == IF CriticalFailures(rs) # <<>> THEN 1 ELSE 0

\* an exception leaves validate_all_scenarios and main: nothing more runs
Raise ==
    /\ pc' = "crashed"
    /\ UNCHANGED <<version, fs, hash_order, results, db_index, report, saved, exit_code, found_references, first_report, deployVars, poolVars>>

ValidateTerraformConfiguration11 ==
    /\ version = "v11"
    /\ pc = "validate_terraform_configuration"
    /\ IF TerraformRaises11
       THEN Raise
       ELSE /\ results' = AddResult(results, TerraformConfig11(CurrentDb))
            /\ pc' = "validate_application_code_rules"
            /\ UNCHANGED <<version, fs, hash_order, db_index, report, saved, exit_code, found_references, first_report, deployVars, poolVars>>

ValidateApplicationCodeRules11 ==
    /\ version = "v11"
    /\ pc = "validate_application_code_rules"
    /\ \E enum \in RegexGlobEnumerations :
          IF ScanRaises11(enum, CodeTypes)
          THEN Raise
          ELSE \E order \in (IF ScenarioOf(CurrentDb) = "LOGIC_HEAVY"
                             THEN HashOrders ELSE {hash_order}) :
                 /\ found_references' = Dict(CodeReferences11(CurrentDb, enum))
                 /\ results' = AddResult(results,
                                   CodeSeparation11(CurrentDb,
                                       CodeReferences11(CurrentDb, enum), order))
                 /\ hash_order' = order
                 /\ pc' = "validate_monitoring_configuration"
                 /\ UNCHANGED <<version, fs, db_index, report, saved, exit_code, first_report, deployVars, poolVars>>

ValidateMonitoringConfiguration11 ==
    /\ version = "v11"
    /\ pc = "validate_monitoring_configuration"
    /\ results' = AddResult(results, MonitoringConfiguration11(CurrentDb))
    /\ pc' = "validate_helm_configuration"
    /\ UNCHANGED <<version, fs, hash_order, db_index, report, saved, exit_code, found_references, first_report, deployVars, poolVars>>

ValidateHelmConfiguration11 ==
    /\ version = "v11"
    /\ pc = "validate_helm_configuration"
    /\ results' = AddResult(results, HelmConfig(CurrentDb, <<HelmPath11(CurrentDb)>>))
    /\ pc' = "validate_documentation"
    /\ UNCHANGED <<version, fs, hash_order, db_index, report, saved, exit_code, found_references, first_report, deployVars, poolVars>>

ValidateDocumentation11 ==
    /\ version = "v11"
    /\ pc = "validate_documentation"
    /\ IF Exists(fs.doc) /\ ~Readable(fs.doc)
       THEN Raise
       ELSE /\ results' = AddResult(results, Documentation11(CurrentDb))
            /\ pc' = "validate_scenario_rules"
            /\ UNCHANGED <<version, fs, hash_order, db_index, report, saved, exit_code, found_references, first_report, deployVars, poolVars>>

ValidateConfigOnlyRules11 ==
    /\ version = "v11"
    /\ pc = "validate_scenario_rules"
    /\ ScenarioOf(CurrentDb) = "CONFIG_ONLY"
    /\ \E enum \in RglobEnumerations :
          IF ScanRaises11(enum, Range(PurityGroups11))
          THEN Raise
          ELSE /\ results' = AddResult(results, ConfigOnlyPurity11(CurrentDb, enum))
               /\ NextIteration("validate_terraform_configuration", "generate_validation_report")
               /\ UNCHANGED <<version, fs, hash_order, report, saved, exit_code, found_references, first_report, deployVars, poolVars>>

ValidateMixedScenarioRules11 ==
    /\ version = "v11"
    /\ pc = "validate_scenario_rules"
    /\ ScenarioOf(CurrentDb) = "MIXED"
    /\ \E enum \in RglobEnumerations :
          LET has_config == AnyNames(CurrentDb, enum["configuration"])
              has_service == AnyNames(CurrentDb, enum["service_layer"])
          IN  IF has_config = "raise" \/ has_service = "raise"
              THEN Raise
              ELSE /\ results' = AddResult(results,
                                     MixedScenarioStructure11(CurrentDb,
                                         has_config = "true", has_service = "true"))
                   /\ NextIteration("validate_terraform_configuration",
                                    "generate_validation_report")
                   /\ UNCHANGED <<version, fs, hash_order, report, saved, exit_code, found_references, first_report, deployVars, poolVars>>

ValidateLogicHeavyRules11 ==
    /\ version = "v11"
    /\ pc = "validate_scenario_rules"
    /\ ScenarioOf(CurrentDb) = "LOGIC_HEAVY"
    /\ \E enum \in RglobEnumerations :
          LET has_business == AnyNames(CurrentDb, enum["business_logic"])
              has_analytics == AnyNames(CurrentDb, enum["analytics"])
          IN  IF has_business = "raise" \/ has_analytics = "raise"
              THEN Raise
              ELSE /\ results' = AddResult(results,
                                     LogicHeavyComplexity11(CurrentDb,
                                         has_business = "true", has_analytics = "true"))
                   /\ NextIteration("validate_terraform_configuration",
                                    "generate_validation_report")
                   /\ UNCHANGED <<version, fs, hash_order, report, saved, exit_code, found_references, first_report, deployVars, poolVars>>

\* _generate_validation_report; validate_all_scenarios drops its return value
GenerateValidationReport11 ==
    /\ version = "v11"
    /\ pc = "generate_validation_report"
    /\ report' = Report11(results)
    /\ pc' = "main_save"
    /\ UNCHANGED <<version, fs, hash_order, results, db_index, saved, exit_code, found_references, first_report, deployVars, poolVars>>

\* main after validate_all_scenarios returned: the write of
\* validation_results.json is not inside try/except
Main11 ==
    /\ version = "v11"
    /\ pc = "main_save"
    /\ \/ /\ saved' = Saved(ResultsData(results))
          /\ exit_code' = <<ExitCode11(results)>>
          /\ pc' = "exited"
          /\ UNCHANGED <<version, fs, hash_order, results, db_index, report, found_references, first_report, deployVars, poolVars>>
       \/ /\ saved' = WriteFailed
          /\ pc' = "crashed"
          /\ UNCHANGED <<version, fs, hash_order, results, db_index, report, exit_code, found_references, first_report, deployVars, poolVars>>

(***************************************************************************)
(* Specification                                                           *)
(***************************************************************************)
FirstCheck(v) == IF v = "v12" THEN "validate_scenario_separation" ELSE "validate_terraform_configuration"

Init ==
    /\ version \in {"v11", "v12"}
    /\ fs \in Corpora
    /\ hash_order = <<>>
    /\ results = <<>>
    /\ db_index = 1
    /\ pc = FirstCheck(version)
    /\ report = NoReport
    /\ saved = NotSaved
    /\ exit_code = <<>>
    /\ found_references = NoReferences
    /\ first_report = NoReport
    /\ DeployNotStarted
    /\ NoService

Next ==
    \/ ValidateScenarioSeparation12
    \/ ValidateInfrastructureFiles12
    \/ ValidateMonitoringSetup12
    \/ GenerateReport12
    \/ Main12
    \/ ValidateTerraformConfiguration11
    \/ ValidateApplicationCodeRules11
    \/ ValidateMonitoringConfiguration11
    \/ ValidateHelmConfiguration11
    \/ ValidateDocumentation11
    \/ ValidateConfigOnlyRules11
    \/ ValidateMixedScenarioRules11
    \/ ValidateLogicHeavyRules11
    \/ GenerateValidationReport11
    \/ Main11

Spec == Init /\ [][Next]_vars

\* The validator is one sequential process: while a step is possible the
\* interpreter takes it
SpecLive == Spec /\ WF_vars(Next)

(***************************************************************************)
(* The pipeline run twice by one caller: validate_all_scenarios called      *)
(* again on the validator that has returned, or on a new validator.         *)
(***************************************************************************)
\* validator.validate_all_scenarios() once more: nothing resets self.results
ValidateAllScenariosAgain12 ==
    /\ version = "v12"
    /\ pc = "main_return"
    /\ ~first_report.generated
    /\ first_report' = report
    /\ db_index' = 1
    /\ pc' = "validate_scenario_separation"
    /\ UNCHANGED <<version, fs, hash_order, results, report, saved, exit_code, found_references, deployVars, poolVars>>

\* DatabaseScenarioValidator().validate_all_scenarios() once more, in the
\* same process: __init__ gives the new validator an empty result list
NewValidator12 ==
    /\ version = "v12"
    /\ pc = "main_return"
    /\ ~first_report.generated
    /\ first_report' = report
    /\ results' = <<>>
    /\ found_references' = NoReferences
    /\ db_index' = 1
    /\ pc' = "validate_scenario_separation"
    /\ UNCHANGED <<version, fs, hash_order, report, saved, exit_code, deployVars, poolVars>>

\* the corpora whose application code varies for a CONFIG_ONLY database
InitTwice == Init /\ version = "v12" /\ fs \in AppCorpora("periodic_table")

NextTwice ==
    \/ ValidateScenarioSeparation12
    \/ ValidateInfrastructureFiles12
    \/ ValidateMonitoringSetup12
    \/ GenerateReport12
    \/ Main12
    \/ ValidateAllScenariosAgain12
    \/ NewValidator12

SpecTwice == InitTwice /\ [][NextTwice]_vars

(***************************************************************************)
(* The report generation and main on their own: every result sequence up   *)
(* to MaxResults, the empty one included, is handed to them.               *)
(***************************************************************************)
ViolationTypes == {"CRITICAL", "WARNING", "INFO"}

\* Results with every status and every severity
SampleResults ==
    { ValidationResult("pagila", "MIXED", "terraform_config", st, vt, "", <<>>, <<>>) :
        st \in Statuses, vt \in ViolationTypes }

ResultSequences == UNION { [1..n -> SampleResults] : n \in 0..MaxResults }

InitReport ==
    /\ version \in {"v11", "v12"}
    /\ fs = GeneratedCorpus
    /\ hash_order = <<>>
    /\ results \in ResultSequences
    /\ db_index = Len(DatabaseOrder)
    /\ pc = (IF version = "v12" THEN "generate_report" ELSE "generate_validation_report")
    /\ report = NoReport
    /\ saved = NotSaved
    /\ exit_code = <<>>
    /\ found_references = NoReferences
    /\ first_report = NoReport
    /\ DeployNotStarted
    /\ NoService

NextReport ==
    \/ GenerateReport12
    \/ Main12
    \/ GenerateValidationReport11
    \/ Main11

SpecReport == InitReport /\ [][NextReport]_vars

(***************************************************************************)
(* The earlier validator's report generation over results of every         *)
(* scenario: sequences in which a scenario has no result are included.     *)
(***************************************************************************)
\* Results of every scenario and status
ScenarioSamples ==
    { ValidationResult("pagila", sc, "helm_config", st,
                       (IF st = "PASS" THEN "INFO" ELSE "WARNING"), "", <<>>, <<>>) :
        sc \in ScenarioTypes, st \in Statuses }

InitScenarioReport ==
    /\ version = "v11"
    /\ fs = GeneratedCorpus
    /\ hash_order = <<>>
    /\ results \in UNION { [1..n -> ScenarioSamples] : n \in 0..MaxResults }
    /\ db_index = Len(DatabaseOrder)
    /\ pc = "generate_validation_report"
    /\ report = NoReport
    /\ saved = NotSaved
    /\ exit_code = <<>>
    /\ found_references = NoReferences
    /\ first_report = NoReport
    /\ DeployNotStarted
    /\ NoService

NextScenarioReport ==
    \/ GenerateValidationReport11
    \/ Main11

SpecScenarioReport == InitScenarioReport /\ [][NextScenarioReport]_vars

(***************************************************************************)
(* Properties                                                              *)
(***************************************************************************)
\* The results of a check name
ResultsOf(names) == {i \in 1..Len(results) : results[i].check_name \in names}

IsCriticalFail(r) == r.status = "FAIL" /\ r.violation_type = "CRITICAL"

\* The categories a scenario forbids: all application code for CONFIG_ONLY,
\* business logic and analytics for MIXED, none for LOGIC_HEAVY
ForbiddenCategories(scenario) ==
    CASE scenario = "CONFIG_ONLY" -> CodeTypes
      [] scenario = "MIXED" -> {"business_logic", "analytics"}
      [] OTHER -> {}

\* The separation checks: the check of the application code against the
\* scenario's forbidden categories
SeparationChecks ==
    IF version = "v12" THEN {"config_only_purity", "mixed_scenario_rules"}
    ELSE {"code_separation"}

\* The artifacts of a category that the separation check scans: the files its
\* glob yields and whose text it reads
ScannedArtifacts(category) ==
    {p \in AppFiles :
        /\ DirOf(p) = DirOfType(category)
        /\ Readable(fs.app[p])
        /\ IF version = "v12" THEN FnmatchStarPy(NameOf(p))
           ELSE FnmatchDotStarBackslashPy(NameOf(p))}

\* Evidence: the scanned artifacts of a category that contain the name
Evidence(database, category) ==
    {p \in ScannedArtifacts(category) : database \in fs.app[p].text}

C2_AggregationCorrectness ==
    report.generated =>
        (report.success <=> ~\E i \in 1..Len(results) : IsCriticalFail(results[i]))

\* C2 witness: the report was generated for the empty sequence, with success.
C2_Witness == report.generated /\ results = <<>> /\ report.success

\* C3 (exit code): main returns 1 exactly when some result of the run is FAIL
\* with severity CRITICAL and 0 otherwise; a FAIL of lower severity or a
\* WARNING result alone leaves it 0.
C3_ExitCode ==
    pc = "exited" =>
        exit_code = (IF \E i \in 1..Len(results) : IsCriticalFail(results[i])
                     THEN <<1>> ELSE <<0>>)

\* C3 witness: main returned 0 after a run with a FAIL of severity WARNING
\* and a WARNING result.
C3_Witness ==
    /\ pc = "exited"
    /\ exit_code = <<0>>
    /\ \E i \in 1..Len(results) :
          results[i].status = "FAIL" /\ results[i].violation_type = "WARNING"
    /\ \E i \in 1..Len(results) : results[i].status = "WARNING"

\* C4 (infrastructure presence): for every resource, of any scenario, the
\* terraform_config result is FAIL/CRITICAL when no Terraform artifact
\* contains the resource name, and PASS when a readable one contains it.
C4_InfrastructurePresence ==
    \A i \in ResultsOf({"terraform_config"}) :
        LET d == results[i].database
        IN  /\ (\A slot \in TfSlots : ~(Exists(fs.tf[slot]) /\ d \in fs.tf[slot].text))
                  => IsCriticalFail(results[i])
            /\ (\E slot \in TfSlots : Readable(fs.tf[slot]) /\ d \in fs.tf[slot].text)
                  => results[i].status = "PASS"

\* C4 witness: one run has reported a CONFIG_ONLY resource that no Terraform
\* file names as FAIL/CRITICAL and a LOGIC_HEAVY resource that one names as PASS.
C4_Witness ==
    \E i, j \in ResultsOf({"terraform_config"}) :
        /\ results[i].scenario = "CONFIG_ONLY" /\ IsCriticalFail(results[i])
        /\ \A slot \in TfSlots : results[i].database \notin fs.tf[slot].text
        /\ results[j].scenario = "LOGIC_HEAVY" /\ results[j].status = "PASS"

\* An application-code artifact references the database: a readable .py file
\* of one of the four application-code directories contains its name
Referenced(database) ==
    \E p \in AppFiles :
        Readable(fs.app[p]) /\ FnmatchStarPy(NameOf(p)) /\ database \in fs.app[p].text

\* C5 (CONFIG_ONLY purity), as claimed: the separation result of a CONFIG_ONLY
\* resource is FAIL/CRITICAL when an application-code artifact references the
\* resource, and PASS/INFO exactly when none does.
C5_ConfigOnlyPurity ==
    \A i \in ResultsOf(SeparationChecks) :
        results[i].scenario = "CONFIG_ONLY" =>
            /\ Referenced(results[i].database) => IsCriticalFail(results[i])
            /\ (results[i].status = "PASS" /\ results[i].violation_type = "INFO")
                   <=> ~Referenced(results[i].database)

\* The completeness check: the LOGIC_HEAVY result of the application-code check
CompletenessResults ==
    {i \in ResultsOf(IF version = "v12" THEN {"logic_heavy_complexity"} ELSE {"code_separation"}) :
        results[i].scenario = "LOGIC_HEAVY"}

\* The categories the items of a details list name
NamedIn(details) == UNION {Range(details[k].items) : k \in 1..Len(details)}

\* C6 (completeness check), as claimed: when a required category of a
\* LOGIC_HEAVY resource has no evidence the result is WARNING with severity
\* WARNING and its details list exactly the missing required categories; when
\* every required category has evidence the result is PASS.
C6_CompletenessCheck ==
    \A i \in CompletenessResults :
        LET missing == {t \in RequiredTypes : Evidence(results[i].database, t) = {}}
        IN  IF missing # {}
            THEN /\ results[i].status = "WARNING"
                 /\ results[i].violation_type = "WARNING"
                 /\ NamedIn(results[i].details) = missing
            ELSE results[i].status = "PASS"

\* The monitor file of a database is complete: every word the generator
\* writes is in it
MonitorComplete(database) == CompleteMonitor(database) \subseteq fs.monitor[database].text

\* The ownership document names the database and its owner
DocComplete(database) == {database, OwnerOf(database)} \subseteq fs.doc.text

\* C7 (monitoring and documentation are soft), as claimed: when the monitor
\* file or the ownership document of a resource is absent the respective
\* result is WARNING, never CRITICAL; it is PASS when the artifact is present.
C7_MonitoringDocumentationSoft ==
    /\ \A i \in ResultsOf({"monitoring_config"}) :
           LET d == results[i].database
           IN  /\ ~Exists(fs.monitor[d]) =>
                      results[i].status = "WARNING" /\ results[i].violation_type # "CRITICAL"
               /\ Readable(fs.monitor[d]) /\ MonitorComplete(d) => results[i].status = "PASS"
    /\ \A i \in ResultsOf({"documentation"}) :
           LET d == results[i].database
           IN  /\ ~Exists(fs.doc) =>
                      results[i].status = "WARNING" /\ results[i].violation_type # "CRITICAL"
               /\ Readable(fs.doc) /\ DocComplete(d) => results[i].status = "PASS"

\* C7, amended: a monitoring or documentation result is FAIL with severity
\* CRITICAL when the monitor file or the ownership document does not exist;
\* when the artifact exists the result is never CRITICAL: it is PASS when the
\* artifact is readable and complete, and WARNING with severity WARNING when
\* it is readable and lacks the scenario (monitor) or the database or its
\* owner (document).
C7_AbsentIsCriticalPresentIsSoft ==
    /\ \A i \in ResultsOf({"monitoring_config"}) :
           LET d == results[i].database
               f == fs.monitor[d]
           IN  /\ ~Exists(f) => IsCriticalFail(results[i])
               /\ Exists(f) => results[i].violation_type # "CRITICAL"
               /\ Readable(f) /\ MonitorComplete(d) => results[i].status = "PASS"
               /\ Readable(f) /\ ScenarioOf(d) \notin f.text =>
                      results[i].status = "WARNING" /\ results[i].violation_type = "WARNING"
    /\ \A i \in ResultsOf({"documentation"}) :
           LET d == results[i].database
           IN  /\ ~Exists(fs.doc) => IsCriticalFail(results[i])
               /\ Exists(fs.doc) => results[i].violation_type # "CRITICAL"
               /\ Readable(fs.doc) /\ DocComplete(d) => results[i].status = "PASS"
               /\ Readable(fs.doc) /\ ~DocComplete(d) =>
                      results[i].status = "WARNING" /\ results[i].violation_type = "WARNING"

\* C7 witness: the later validator has reported a resource whose monitor file
\* does not exist as a critical failure, and the earlier one a resource whose
\* owner the existing document lacks as a warning.
C7_Witness ==
    \/ /\ version = "v12"
       /\ \E i \in ResultsOf({"monitoring_config"}) :
              ~Exists(fs.monitor[results[i].database]) /\ IsCriticalFail(results[i])
       /\ \E i \in ResultsOf({"monitoring_config"}) : results[i].status = "PASS"
       /\ pc = "exited"
    \/ /\ version = "v11"
       /\ \E i \in ResultsOf({"documentation"}) :
              /\ Exists(fs.doc) /\ OwnerOf(results[i].database) \notin fs.doc.text
              /\ results[i].status = "WARNING"
       /\ \E i \in ResultsOf({"monitoring_config"}) :
              ~Exists(fs.monitor[results[i].database]) /\ IsCriticalFail(results[i])

\* The categories a scenario allows without requiring them
AllowedCategories(scenario) ==
    IF scenario = "MIXED" THEN {"configuration", "service_layer"} ELSE {}

\* C8 (separation pass condition): a separation result (the LOGIC_HEAVY
\* result is the completeness check, not a separation check) is PASS/INFO when no
\* forbidden category has evidence and either an allowed category has evidence
\* or the scenario permits no evidence at all (CONFIG_ONLY); it is FAIL only
\* if some forbidden category has evidence.
C8_SeparationPassCondition ==
    \A i \in ResultsOf(SeparationChecks) \ CompletenessResults :
        LET d == results[i].database
            forbidden == \E c \in ForbiddenCategories(results[i].scenario) : Evidence(d, c) # {}
            allowed == \E c \in AllowedCategories(results[i].scenario) : Evidence(d, c) # {}
        IN  /\ ~forbidden /\ (allowed \/ results[i].scenario = "CONFIG_ONLY")
                => results[i].status = "PASS" /\ results[i].violation_type = "INFO"
            /\ results[i].status = "FAIL" => forbidden

\* C8 witness: the later validator has passed a MIXED resource that only a
\* configuration artifact names.
C8_Witness ==
    /\ version = "v12"
    /\ \E i \in ResultsOf({"mixed_scenario_rules"}) :
           LET d == results[i].database
           IN  /\ Evidence(d, "configuration") # {}
               /\ \A c \in CodeTypes \ {"configuration"} : Evidence(d, c) = {}
               /\ results[i].status = "PASS" /\ results[i].violation_type = "INFO"

\* The checks a validator runs for a database
ChecksOf(database) ==
    IF version = "v12"
    THEN {"terraform_config", "helm_config", "monitoring_config",
          CASE ScenarioOf(database) = "CONFIG_ONLY" -> "config_only_purity"
            [] ScenarioOf(database) = "MIXED" -> "mixed_scenario_rules"
            [] OTHER -> "logic_heavy_complexity"}
    ELSE {"terraform_config", "code_separation", "monitoring_config", "helm_config",
          "documentation",
          CASE ScenarioOf(database) = "CONFIG_ONLY" -> "config_only_purity"
            [] ScenarioOf(database) = "MIXED" -> "mixed_scenario_structure"
            [] OTHER -> "logic_heavy_complexity"}

\* Number of results recorded for a (resource, check) pair
ResultCount(database, check) ==
    Cardinality({i \in 1..Len(results) :
                    results[i].database = database /\ results[i].check_name = check})

\* The loop over the registry has ended and the report stage is reached
RunComplete == pc \in {"generate_report", "generate_validation_report",
                       "main_return", "main_save", "exited"}

\* C9 (one result per check): no (resource, check) pair ever has more than
\* one result, every result belongs to a check applicable to its resource,
\* and after a full validation run every applicable pair has exactly one.
C9_OneResultPerCheck ==
    /\ \A i \in 1..Len(results) :
           /\ results[i].check_name \in ChecksOf(results[i].database)
           /\ ResultCount(results[i].database, results[i].check_name) = 1
    /\ RunComplete =>
           \A d \in Databases : \A check \in ChecksOf(d) : ResultCount(d, check) = 1

\* C9 witness: the later validator has finished a run over the whole
\* registry with four results per database, some of them PASS.
C9_Witness ==
    /\ version = "v12" /\ pc = "exited"
    /\ Len(results) = 4 * Cardinality(Databases)
    /\ \E i \in 1..Len(results) : results[i].status = "PASS"

\* C10 (tie-break): when several forbidden categories have evidence for one
\* resource, its separation check has a single result, FAIL; the details name
\* every offending category and file_references contain every offending
\* artifact.
C10_TieBreak ==
    \A i \in ResultsOf(SeparationChecks) :
        LET d == results[i].database
            offending == {c \in ForbiddenCategories(results[i].scenario) : Evidence(d, c) # {}}
        IN  Cardinality(offending) >= 2 =>
                /\ results[i].status = "FAIL"
                /\ ResultCount(d, results[i].check_name) = 1
                /\ offending \subseteq NamedIn(results[i].details)
                /\ \A c \in offending : Evidence(d, c) \subseteq Range(results[i].file_references)

\* C10 witness: the later validator has failed a CONFIG_ONLY resource named
\* by artifacts of three categories, with three file references.
C10_Witness ==
    /\ version = "v12"
    /\ \E i \in ResultsOf({"config_only_purity"}) :
           /\ Cardinality({c \in CodeTypes : Evidence(results[i].database, c) # {}}) = 3
           /\ results[i].status = "FAIL"
           /\ Len(results[i].file_references) >= 3

\* The application-code scan of CurrentDb has just returned
ScanJustDone ==
    pc = (IF version = "v12" THEN "validate_infrastructure_files"
          ELSE "validate_monitoring_configuration")

\* C11 (category completeness), as claimed: the evidence mapping the scan has
\* built has a key for every configured category, with an empty sequence when
\* nothing matched; a category is never absent.
C11_CategoryCompleteness ==
    ScanJustDone => DOMAIN found_references = CodeTypes

\* C11, amended: the evidence mapping the scan has built has a key exactly for
\* the categories in which a scanned artifact contains the resource name, each
\* with the non-empty sequence of those artifacts; a category in which nothing
\* matched is absent from the mapping.
C11_KeysAreCategoriesWithEvidence ==
    ScanJustDone =>
        /\ DOMAIN found_references = {t \in CodeTypes : Evidence(CurrentDb, t) # {}}
        /\ \A t \in DOMAIN found_references :
               /\ found_references[t] # <<>>
               /\ Range(found_references[t]) = Evidence(CurrentDb, t)

\* C11 witness: the later validator has scanned a resource that artifacts of
\* two categories name; the mapping has those two keys and lacks the others.
C11_Witness ==
    /\ version = "v12"
    /\ ScanJustDone
    /\ Cardinality(DOMAIN found_references) = 2
    /\ Cardinality({t \in CodeTypes : Evidence(CurrentDb, t) = {}}) = 2

\* The application-code artifacts sorted by path
SortedPaths ==
    << <<"src", "analytics", ".adhoc\\.py">>,
       <<"src", "business", ".legacy\\.py">>,
       <<"src", "business", "employee_payroll_system.py">>,
       <<"src", "config", "database_connections.py">>,
       <<"src", "services", "database_service.py">> >>

\* Position of a path in the sorted order
PathRank(p) == CHOOSE k \in 1..Len(SortedPaths) : SortedPaths[k] = p

\* A sequence of paths keeps the artifacts of each directory in sorted order
SortedWithinCategory(paths) ==
    \A i, j \in 1..Len(paths) :
        i < j /\ DirOf(paths[i]) = DirOf(paths[j]) => PathRank(paths[i]) < PathRank(paths[j])

\* C12 (deterministic evidence order), as claimed: within each category the
\* recorded artifact locations are in sorted-by-path order, whatever the order
\* in which the enumeration yielded the files, both in the evidence mapping
\* and in the file references of the separation results.
C12_SortedEvidence ==
    /\ ScanJustDone =>
           \A t \in DOMAIN found_references : SortedWithinCategory(found_references[t])
    /\ \A i \in ResultsOf(SeparationChecks) : SortedWithinCategory(results[i].file_references)

\* C13 (idempotence), as claimed: the report of a second run over the
\* unmodified corpus, by a new validator or by a second call on the same
\* validator, is identical to the report of the first run.
C13_Idempotence ==
    first_report.generated /\ pc = "main_return" => report = first_report

\* Place of a check in the fixed sequence of the later validator: the
\* separation or completeness check, the infrastructure checks, monitoring
CheckStage12(check) ==
    CASE check \in {"config_only_purity", "mixed_scenario_rules", "logic_heavy_complexity"} -> 1
      [] check \in {"terraform_config", "helm_config"} -> 2
      [] OTHER -> 3

\* Positions at which the result list passes to another resource
BlockStarts ==
    {i \in 1..Len(results) : i = 1 \/ results[i - 1].database # results[i].database}

\* C14 (order within a resource): the results of one resource are contiguous
\* in the result list (the list passes to a resource once: there are as many
\* blocks as resources with results), and in the later validator the results
\* of a resource follow the fixed sequence: separation or completeness first,
\* infrastructure presence next, monitoring presence last.
C14_WithinResourceOrder ==
    /\ Cardinality(BlockStarts) = Cardinality({results[i].database : i \in 1..Len(results)})
    /\ version = "v12" =>
           \A i \in 1..Len(results) :
               IF i \in BlockStarts
               THEN CheckStage12(results[i].check_name) = 1
               ELSE /\ CheckStage12(results[i].check_name) > 1
                    /\ CheckStage12(results[i - 1].check_name)
                           <= CheckStage12(results[i].check_name)

\* C14 witness: the later validator has evaluated every resource; the last
\* four results are the completeness, Terraform, Helm and monitoring results
\* of the last resource.
C14_Witness ==
    /\ version = "v12" /\ pc = "generate_report"
    /\ Len(results) = 4 * Cardinality(Databases)
    /\ LET n == Len(results)
       IN  /\ results[n - 3].check_name = "logic_heavy_complexity"
           /\ results[n - 2].check_name = "terraform_config"
           /\ results[n].check_name = "monitoring_config"
           /\ \A k \in (n - 3)..n : results[k].database = "postgres_air"

\* The resource names and the check names in sorted order
SortedDatabases ==
    <<"chinook", "employees", "lego", "netflix", "pagila", "periodic_table",
      "postgres_air", "titanic", "world_happiness">>

SortedChecks ==
    <<"code_separation", "config_only_purity", "documentation", "helm_config",
      "logic_heavy_complexity", "mixed_scenario_rules", "mixed_scenario_structure",
      "monitoring_config", "terraform_config">>

\* Position of a name in a sorted sequence of names
RankIn(sorted, name) == CHOOSE k \in 1..Len(sorted) : sorted[k] = name

\* (resource, check) of one record precedes or equals that of another
KeyLeq(d1, c1, d2, c2) ==
    \/ RankIn(SortedDatabases, d1) < RankIn(SortedDatabases, d2)
    \/ d1 = d2 /\ RankIn(SortedChecks, c1) <= RankIn(SortedChecks, c2)

\* C15 (final ordering), as claimed: the result sequence the report
\* summarizes and the records written to validation_results.json are ordered
\* by (resource name, check name).
C15_SortedByResourceAndCheck ==
    /\ report.generated =>
           \A i \in 1..(Len(results) - 1) :
               KeyLeq(results[i].database, results[i].check_name,
                      results[i + 1].database, results[i + 1].check_name)
    /\ saved.state = "written" =>
           \A i \in 1..(Len(saved.data) - 1) :
               KeyLeq(saved.data[i].database, saved.data[i].check,
                      saved.data[i + 1].database, saved.data[i + 1].check)

\* The fixed check sequence of a validator for a database
CheckSequence(database) ==
    IF version = "v12"
    THEN << CASE ScenarioOf(database) = "CONFIG_ONLY" -> "config_only_purity"
              [] ScenarioOf(database) = "MIXED" -> "mixed_scenario_rules"
              [] OTHER -> "logic_heavy_complexity",
            "terraform_config", "helm_config", "monitoring_config" >>
    ELSE << "terraform_config", "code_separation", "monitoring_config", "helm_config",
            "documentation",
            CASE ScenarioOf(database) = "CONFIG_ONLY" -> "config_only_purity"
              [] ScenarioOf(database) = "MIXED" -> "mixed_scenario_structure"
              [] OTHER -> "logic_heavy_complexity" >>

\* The (resource, check) pairs in registry order and, within a resource, in
\* the fixed check sequence
RegistryOrder ==
    Concat([k \in 1..Len(DatabaseOrder) |->
               [c \in 1..Len(CheckSequence(DatabaseOrder[k])) |->
                   <<DatabaseOrder[k], CheckSequence(DatabaseOrder[k])[c]>>]])

\* C15, amended: the result sequence the report summarizes and the records
\* written to validation_results.json are in the order of the registry's
\* entries and, within a resource, in the fixed check sequence; the sequence
\* is not sorted by (resource name, check name).
C15_InRegistryOrder ==
    /\ report.generated =>
           [i \in 1..Len(results) |-> <<results[i].database, results[i].check_name>>]
               = RegistryOrder
    /\ saved.state = "written" =>
           [i \in 1..Len(saved.data) |-> <<saved.data[i].database, saved.data[i].check>>]
               = RegistryOrder

\* C15 witness: the later validator has written validation_results.json; its
\* first record is periodic_table's and a later one is chinook's.
C15_Witness ==
    /\ version = "v12" /\ report.generated /\ saved.state = "written"
    /\ saved.data[1].database = "periodic_table"
    /\ \E i \in 2..Len(saved.data) : saved.data[i].database = "chinook"

\* Positions of the results that are FAIL with severity CRITICAL
CriticalPositions == {i \in 1..Len(results) : IsCriticalFail(results[i])}

\* The resources whose separation result reports a forbidden category
ResourcesInViolation ==
    {results[i].database : i \in {j \in ResultsOf(SeparationChecks) \ CompletenessResults :
                                      results[j].status = "FAIL"}}

\* C16 (critical-failure list): the report's critical-failure list holds
\* exactly the results that are FAIL with severity CRITICAL, in their
\* original order; so when exactly two resources have a forbidden-category
\* violation and nothing else fails critically the list has two entries and
\* success is false.
C16_CriticalFailureList ==
    report.generated =>
        LET cf == report.critical_failures
        IN  /\ Len(cf) = Cardinality(CriticalPositions)
            /\ \A k \in 1..Len(cf) :
                   \E i \in CriticalPositions :
                       /\ Cardinality({j \in CriticalPositions : j < i}) = k - 1
                       /\ cf[k] = results[i]
            /\ (/\ Cardinality(ResourcesInViolation) = 2
                /\ \A i \in CriticalPositions : i \in ResultsOf(SeparationChecks))
                   => Len(cf) = 2 /\ ~report.success

\* C16 witness: a run over the nine resources in which titanic and pagila
\* are named by business logic and nothing else fails critically has been
\* summarized: two critical failures, in scan order, and no success.
C16_Witness ==
    /\ report.generated
    /\ Len(DatabaseOrder) = 9
    /\ ResourcesInViolation = {"titanic", "pagila"}
    /\ Len(report.critical_failures) = 2
    /\ report.critical_failures[1].database = "titanic"
    /\ report.critical_failures[2].database = "pagila"
    /\ ~report.success

\* Number of results of a scenario, and of its PASS results
CountOf(scenario) == Cardinality({i \in 1..Len(results) : results[i].scenario = scenario})
PassesOf(scenario) ==
    Cardinality({i \in 1..Len(results) :
                    results[i].scenario = scenario /\ results[i].status = "PASS"})

\* C17 (per-scenario compliance rate): in the earlier validator's report, for
\* each of the three scenarios the rate is count(PASS results of the
\* scenario) / count(results of the scenario), to the printed tenth of a
\* percent, and 0 when the scenario has no results; the per-scenario totals
\* add up to the number of results.
C17_ScenarioComplianceRate ==
    version = "v11" /\ report.generated =>
        LET c == report.scenario_compliance
        IN  /\ DOMAIN c = {"CONFIG_ONLY", "MIXED", "LOGIC_HEAVY"}
            /\ \A sc \in DOMAIN c :
                   /\ c[sc].total = CountOf(sc)
                   /\ c[sc].passes = PassesOf(sc)
                   /\ CountOf(sc) = 0 => c[sc].compliance_rate = 0
                   /\ CountOf(sc) > 0 =>
                          /\ 2 * (c[sc].compliance_rate * CountOf(sc) - 1000 * PassesOf(sc))
                                 <= CountOf(sc)
                          /\ 2 * (1000 * PassesOf(sc) - c[sc].compliance_rate * CountOf(sc))
                                 <= CountOf(sc)
            /\ c["CONFIG_ONLY"].total + c["MIXED"].total + c["LOGIC_HEAVY"].total
                   = Len(results)

\* C17 witness: a report over three results, two of one scenario (one PASS),
\* one of another and none of the third: rates 50.0, 100.0 and 0.
C17_Witness ==
    /\ version = "v11" /\ report.generated
    /\ Len(results) = 3
    /\ report.scenario_compliance["MIXED"].compliance_rate = 500
    /\ report.scenario_compliance["CONFIG_ONLY"].compliance_rate = 1000
    /\ report.scenario_compliance["LOGIC_HEAVY"].total = 0
    /\ report.scenario_compliance["LOGIC_HEAVY"].compliance_rate = 0

\* The run was aborted by an exception of a scan (and not by the failed write
\* of validation_results.json in main)
ScanAborted == pc = "crashed" /\ saved.state # "write_failed"

\* C18 (partial-failure scanning), as claimed: a read failure on one artifact
\* is caught and the artifact skipped; it never aborts the scan, and every
\* readable artifact that contains the resource name is still recorded as
\* evidence: application code in the evidence mapping, Terraform files in a
\* PASS of the Terraform check.
C18_PartialFailureScanning ==
    /\ ~ScanAborted
    /\ ScanJustDone =>
           \A p \in AppFiles :
               Readable(fs.app[p]) /\ CurrentDb \in fs.app[p].text /\ FnmatchStarPy(NameOf(p))
                   /\ (version = "v11" => FnmatchDotStarBackslashPy(NameOf(p)))
                   => \E t \in DOMAIN found_references : p \in Range(found_references[t])
    /\ \A i \in ResultsOf({"terraform_config"}) :
           (\E slot \in TfSlots :
                Readable(fs.tf[slot]) /\ results[i].database \in fs.tf[slot].text)
               => results[i].status = "PASS"

\* Messages that tell of an artifact that could not be read
ReadErrorMessages == {"Error reading monitor config", "Monitoring config error"}

\* An application-code or Terraform file that the scans try to read cannot be
\* read: every application-code file is read for every resource, a Terraform
\* file unless an earlier one already named the resource
ScanReadError ==
    \/ \E p \in AppFiles :
           Exists(fs.app[p]) /\ ~Readable(fs.app[p]) /\ FnmatchStarPy(NameOf(p))
    \/ /\ \E slot \in TfSlots : Exists(fs.tf[slot]) /\ ~Readable(fs.tf[slot])
       /\ \E d \in Databases :
              \A slot \in TfSlots : ~(Readable(fs.tf[slot]) /\ d \in fs.tf[slot].text)

\* C19 (read errors are visible), as claimed: when a scanned artifact could not
\* be read, the results of the finished run contain a WARNING-level note of
\* the read error.
C19_ReadErrorNoted ==
    RunComplete /\ ScanReadError =>
        \E i \in 1..Len(results) :
            /\ results[i].check_name # "monitoring_config"
            /\ results[i].violation_type = "WARNING"
            /\ results[i].message \in ReadErrorMessages

\* C20 (resource-level errors), as claimed: an error while reading a
\* resource's monitoring artifact surfaces as a result with status FAIL and a
\* message that tells of the error, and it does not abort the run.
C20_ResourceErrorIsFail ==
    /\ \A i \in ResultsOf({"monitoring_config"}) :
           LET f == fs.monitor[results[i].database]
           IN  Exists(f) /\ ~Readable(f) =>
                   results[i].status = "FAIL" /\ results[i].message \in ReadErrorMessages
    /\ (\E d \in Databases : Exists(fs.monitor[d]) /\ ~Readable(fs.monitor[d]))
           => ~ScanAborted

\* C21 (append-only results): every step leaves the results already appended
\* as they are, in place and in order, and only adds results behind them; the
\* report generation and main leave the result sequence exactly as it was.
C21_AppendOnly ==
    [][ /\ Len(results') >= Len(results)
        /\ SubSeq(results', 1, Len(results)) = results
        /\ RunComplete => results' = results ]_vars

\* C21 witness: the later validator has summarized and serialized a result
\* list with a critical failure; the list still has one result per record
\* written.
C21_Witness ==
    /\ version = "v12" /\ pc = "main_return"
    /\ saved.state = "written"
    /\ Len(results) = Len(saved.data) /\ Len(results) > 0
    /\ \E i \in 1..Len(results) : IsCriticalFail(results[i])
    /\ report.total = Len(results)

\* C22 (termination), as claimed: every full validation run comes to generate
\* its report, with results for every registered resource appended by then.
C22_RunTerminates ==
    <>(/\ report.generated
       /\ \A d \in Databases : \E i \in 1..Len(results) : results[i].database = d)

\* The same for runs of the later validator alone
C22_RunTerminates12 ==
    version = "v12" => C22_RunTerminates

\* The (status, severity) pairs of the later validator
StatusSeverityPairs ==
    {<<"PASS", "INFO">>, <<"WARNING", "WARNING">>, <<"FAIL", "CRITICAL">>}

\* C27 (status and severity go together): in the later validator every
\* appended result has its (status, severity) among (PASS, INFO),
\* (WARNING, WARNING), (FAIL, CRITICAL); so in the summary every status is a
\* key of the status counts, the three counts sum to the number of results,
\* and success holds exactly when no result has status FAIL.
C27_StatusSeverityPairs ==
    version = "v12" =>
        /\ \A i \in 1..Len(results) :
               <<results[i].status, results[i].violation_type>> \in StatusSeverityPairs
        /\ report.generated =>
               /\ \A i \in 1..Len(results) : results[i].status \in DOMAIN report.status_counts
               /\ report.status_counts["PASS"] + report.status_counts["WARNING"]
                      + report.status_counts["FAIL"] = Len(results)
               /\ report.success <=> (\A i \in 1..Len(results) : results[i].status # "FAIL")

\* C27 witness: a summary of the later validator over results of all three
\* statuses, so without success
C27_Witness ==
    /\ version = "v12" /\ report.generated
    /\ \A st \in Statuses : report.status_counts[st] > 0
    /\ ~report.success

\* C27 witness: a summary of the later validator with success although
\* warnings were recorded
C27_WitnessSuccess ==
    /\ version = "v12" /\ report.generated
    /\ report.status_counts["WARNING"] > 0
    /\ report.success

\* The exit code that goes with a result sequence
OutcomeOf(rs) == IF \E i \in 1..Len(rs) : IsCriticalFail(rs[i]) THEN 1 ELSE 0

\* C28 (failed write of validation_results.json): in the later validator a
\* failed write is caught and changes nothing of the outcome: the report
\* generation still returns, success and the exit code depend only on whether
\* a FAIL/CRITICAL result exists, and the result sequence stays as it was.
C28_WriteFailureCaught ==
    [][ version = "v12" /\ saved'.state = "write_failed" =>
            /\ pc' \in {"main_return", "exited"}
            /\ results' = results
            /\ report'.generated
            /\ report'.success <=> (OutcomeOf(results) = 0)
            /\ pc' = "exited" => exit_code' = <<OutcomeOf(results)>> ]_vars

\* C28 witness: the later validator has exited with success after a failed
\* write
C28_Witness ==
    /\ version = "v12" /\ saved.state = "write_failed"
    /\ pc = "exited" /\ exit_code = <<0>>
    /\ Len(results) > 0

\* C28 witness: the later validator has exited with 1 after a failed write,
\* because of a critical failure
C28_WitnessFailure ==
    /\ version = "v12" /\ saved.state = "write_failed"
    /\ pc = "exited" /\ exit_code = <<1>>
    /\ \E i \in 1..Len(results) : IsCriticalFail(results[i])

(***************************************************************************)
(* The deploy script deploy-scenarios.sh.  It runs under set -euo pipefail: *)
(* a command that fails ends the script with a non-zero status.  A step of  *)
(* the model is one function called by main, with every command it runs.    *)
(***************************************************************************)
\* Bound: length of the command lines made of arbitrary arguments.
MaxArgs == 3

\* the environments main knows, and two arguments that are none of them
Environments == {"dev", "staging", "prod", "all"}
Positionals == Environments \cup {"qa", ""}

\* the options that set a flag, in the order of usage
FlagOptions == <<"--validate-only", "--skip-validation", "--dry-run", "--force">>

\* the arguments that the pattern -* of the case statement matches
DashArguments == Range(FlagOptions) \cup {"--help", "-x"}

Arguments == Positionals \cup DashArguments

\* the subsequences of a sequence, order kept
RECURSIVE SubSequences(_)
SubSequences(seq) ==
    IF seq = <<>> THEN {<<>>}
    ELSE LET rest == SubSequences(Tail(seq))
         IN  rest \cup {<<Head(seq)>> \o r : r \in rest}

\* The command lines: every short one, and <first argument> [flag options]
\* [one more argument] with every combination of the flag options
CommandLines ==
    UNION { [1..n -> Arguments] : n \in 0..MaxArgs }
    \cup { <<first>> \o flags \o last :
             first \in Arguments, flags \in SubSequences(FlagOptions),
             last \in {<<>>, <<"--help">>, <<"-x">>, <<"dev">>} }

\* values of an environment variable the script may inherit; "" is unset
EnvValues == {"", "true"}

\* ${VAR:-default}
Default(value, default) == IF value = "" THEN default ELSE value

\* one function entered or command run, with the command's exit status; the
\* entry of a function is recorded by its first info
Entry(fn, cmd, status) == [fn |-> fn, cmd |-> cmd, status |-> status]

\* what the argument loop of main has set when it has read the arguments rest
RECURSIVE ParseArguments(_, _)
ParseArguments(rest, st) ==
    IF rest = <<>> THEN st
    ELSE CASE Head(rest) = "--validate-only" ->
                ParseArguments(Tail(rest), [st EXCEPT !.validate_only = TRUE])
           [] Head(rest) = "--skip-validation" ->
                ParseArguments(Tail(rest), [st EXCEPT !.skip_validation = TRUE])
           [] Head(rest) = "--dry-run" ->
                ParseArguments(Tail(rest), [st EXCEPT !.dry_run = TRUE, !.DRY_RUN = "true"])
           [] Head(rest) = "--force" ->
                ParseArguments(Tail(rest), [st EXCEPT !.force = TRUE, !.FORCE = "true"])
           [] Head(rest) = "--help" -> [st EXCEPT !.exit = <<0>>]
           [] Head(rest) \in DashArguments \ (Range(FlagOptions) \cup {"--help"}) ->
                [st EXCEPT !.exit = <<1>>]
           [] OTHER ->
                ParseArguments(Tail(rest),
                    IF st.environment = "" THEN [st EXCEPT !.environment = Head(rest)] ELSE st)

\* the locals of main before the argument loop
MainLocals ==
    [ environment |-> IF args = <<>> THEN "" ELSE args[1],
      validate_only |-> FALSE, skip_validation |-> FALSE, dry_run |-> FALSE,
      force |-> FALSE, FORCE |-> FORCE, DRY_RUN |-> DRY_RUN, exit |-> <<>> ]

\* main up to the call of check_prerequisites: the argument loop, usage and
\* exit 1 without an environment
main ==
    /\ sh_pc = "main"
    /\ LET st == ParseArguments(args, MainLocals)
       IN  /\ environment' = st.environment
           /\ validate_only' = st.validate_only
           /\ skip_validation' = st.skip_validation
           /\ dry_run' = st.dry_run
           /\ force' = st.force
           /\ FORCE' = st.FORCE
           /\ DRY_RUN' = st.DRY_RUN
           /\ IF st.exit # <<>>
              THEN sh_pc' = "exited" /\ exit_status' = st.exit
              ELSE IF st.environment = ""
                   THEN sh_pc' = "exited" /\ exit_status' = <<1>>
                   ELSE sh_pc' = "check_prerequisites" /\ exit_status' = exit_status
    /\ UNCHANGED <<args, REPLY, steps, validatorVars, poolVars>>

\* the script goes on with the call next, or a command has failed and the
\* script has exited
Continue(ok, next) ==
    IF ok THEN sh_pc' = next /\ exit_status' = exit_status
    ELSE sh_pc' = "exited" /\ exit_status' = <<1>>

\* The runs of a function's commands: all of them with success, or up to one
\* that fails
Outcomes(fn, cmds) ==
    { [ done |-> [i \in 1..n |-> Entry(fn, cmds[i], IF i = n THEN 1 ELSE 0)], ok |-> FALSE ] :
        n \in 1..Len(cmds) }
    \cup { [ done |-> [i \in 1..Len(cmds) |-> Entry(fn, cmds[i], 0)], ok |-> TRUE ] }

\* check_prerequisites: a missing tool or no Azure login is an error
check_prerequisites ==
    /\ sh_pc = "check_prerequisites"
    /\ \E o \in Outcomes("check_prerequisites", <<"command -v", "az account show">>) :
           /\ steps' = steps \o o.done
           /\ Continue(o.ok, IF skip_validation THEN "validate_only" ELSE "validate_scenarios")
    /\ UNCHANGED <<args, FORCE, DRY_RUN, environment, validate_only, skip_validation, dry_run, force, REPLY, validatorVars, poolVars>>

\* exit statuses of python3 test_scenarios_validation.py: 0, 1 (failures or a
\* traceback), 2 (no such file)
ValidatorExits == {0, 1, 2}

\* Mutant of validate_scenarios: a failed validation is reported and the
\* script goes on
validate_scenarios_GoesOn ==
    /\ sh_pc = "validate_scenarios"
    /\ \E status \in ValidatorExits :
           /\ steps' = Append(steps, Entry("validate_scenarios", "python3 test_scenarios_validation.py", status))
           /\ Continue(TRUE, "validate_only")
    /\ UNCHANGED <<args, FORCE, DRY_RUN, environment, validate_only, skip_validation, dry_run, force, REPLY, validatorVars, poolVars>>

\* validate_scenarios: error, so exit 1, unless the validator exits with 0
validate_scenarios ==
    /\ sh_pc = "validate_scenarios"
    /\ \E status \in ValidatorExits :
           /\ steps' = Append(steps, Entry("validate_scenarios", "python3 test_scenarios_validation.py", status))
           /\ Continue(status = 0, "validate_only")
    /\ UNCHANGED <<args, FORCE, DRY_RUN, environment, validate_only, skip_validation, dry_run, force, REPLY, validatorVars, poolVars>>

\* the function main calls first for an environment
FirstDeploy(env) ==
    CASE env = "dev" -> "deploy_dev"
      [] env = "staging" -> "deploy_staging"
      [] env = "prod" -> "deploy_prod"
      [] env = "all" -> "deploy_dev"
      [] OTHER -> "invalid"

\* Mutant of main_deploy: validate_only is not looked at
main_deploy_IgnoresValidateOnly ==
    /\ sh_pc = "validate_only"
    /\ IF FirstDeploy(environment) = "invalid"
       THEN sh_pc' = "exited" /\ exit_status' = <<1>>
       ELSE sh_pc' = FirstDeploy(environment) /\ exit_status' = exit_status
    /\ UNCHANGED <<args, FORCE, DRY_RUN, environment, validate_only, skip_validation, dry_run, force, REPLY, steps, validatorVars, poolVars>>

\* main after the validation: exit 0 if validation only, else the case over
\* the environment
main_deploy ==
    /\ sh_pc = "validate_only"
    /\ IF validate_only
       THEN sh_pc' = "exited" /\ exit_status' = <<0>>
       ELSE IF FirstDeploy(environment) = "invalid"
            THEN sh_pc' = "exited" /\ exit_status' = <<1>>
            ELSE sh_pc' = FirstDeploy(environment) /\ exit_status' = exit_status
    /\ UNCHANGED <<args, FORCE, DRY_RUN, environment, validate_only, skip_validation, dry_run, force, REPLY, steps, validatorVars, poolVars>>

\* what main calls after a deploy function
AfterDeploy(fn) ==
    IF environment = "all" /\ fn = "deploy_dev" THEN "deploy_staging"
    ELSE IF environment = "all" /\ fn = "deploy_staging" THEN "deploy_prod"
    ELSE "generate_report"

\* the copy of a generated Terraform file, made when the target is not there
CopyIfMissing(missing, cmd) == IF missing THEN <<"mkdir -p", cmd>> ELSE <<>>

\* Mutant of DevCommands: the dry run returns after the apply
DevCommands_AppliesThenReturns(missing) ==
    <<"info">> \o CopyIfMissing(missing, "cp terraform_dev_databases.tf")
        \o <<"terraform init", "terraform plan">>
        \o (IF Default(DRY_RUN, "false") = "true" THEN <<"terraform apply">>
            ELSE <<"terraform apply", "deploy_monitoring">>)

\* the commands of deploy_dev
DevCommands(missing) ==
    <<"info">> \o CopyIfMissing(missing, "cp terraform_dev_databases.tf")
        \o <<"terraform init", "terraform plan">>
        \o (IF Default(DRY_RUN, "false") = "true" THEN <<>>
            ELSE <<"terraform apply", "deploy_monitoring">>)

\* deploy_dev
deploy_dev ==
    /\ sh_pc = "deploy_dev"
    /\ \E missing \in BOOLEAN : \E o \in Outcomes("deploy_dev", DevCommands(missing)) :
           /\ steps' = steps \o o.done
           /\ Continue(o.ok, AfterDeploy("deploy_dev"))
    /\ UNCHANGED <<args, FORCE, DRY_RUN, environment, validate_only, skip_validation, dry_run, force, REPLY, validatorVars, poolVars>>

\* the commands of deploy_staging
StagingCommands ==
    <<"info", "mkdir -p", "cat > main.tf", "terraform init">>
        \o (IF Default(DRY_RUN, "false") = "true" THEN <<>>
            ELSE <<"deploy_service_layer", "deploy_monitoring">>)

\* deploy_staging
deploy_staging ==
    /\ sh_pc = "deploy_staging"
    /\ \E o \in Outcomes("deploy_staging", StagingCommands) :
           /\ steps' = steps \o o.done
           /\ Continue(o.ok, AfterDeploy("deploy_staging"))
    /\ UNCHANGED <<args, FORCE, DRY_RUN, environment, validate_only, skip_validation, dry_run, force, REPLY, validatorVars, poolVars>>

\* The operator's answers, character by character, and the end of input
EndOfInput == <<"EOF">>
Replies ==
    { <<"y", "e", "s">>, <<"Y", "E", "S">>, <<"y", "E", "s">>, <<"n", "o">>, <<"y">>,
      <<>>, <<"y", "e", "s", " ">>, <<"o", "y", "e", "s">> }

\* [[ $REPLY =~ ^[Yy][Ee][Ss]$ ]]
MatchesYes(reply) ==
    /\ Len(reply) = 3
    /\ reply[1] \in {"Y", "y"} /\ reply[2] \in {"E", "e"} /\ reply[3] \in {"S", "s"}

\* the commands of deploy_prod after the authorization
ProdCommands(missing) ==
    CopyIfMissing(missing, "cp terraform_prod_critical_databases.tf")
        \o <<"terraform init">>
        \o (IF Default(DRY_RUN, "false") = "true" THEN <<"terraform plan">>
            ELSE <<"deploy_critical_systems", "deploy_monitoring">>)

\* deploy_prod: unless FORCE is true the operator is asked; read fails at the
\* end of input, and an answer other than yes is an error
deploy_prod ==
    /\ sh_pc = "deploy_prod"
    /\ \/ /\ Default(FORCE, "false") = "true"
          /\ REPLY' = REPLY
          /\ \E missing \in BOOLEAN :
             \E o \in Outcomes("deploy_prod", <<"info">> \o ProdCommands(missing)) :
                 /\ steps' = steps \o o.done
                 /\ Continue(o.ok, AfterDeploy("deploy_prod"))
       \/ /\ Default(FORCE, "false") # "true"
          /\ \E reply \in Replies \cup {EndOfInput} :
                IF reply = EndOfInput
                THEN /\ REPLY' = <<>>
                     /\ steps' = steps \o <<Entry("deploy_prod", "info", 0), Entry("deploy_prod", "read -p", 1)>>
                     /\ Continue(FALSE, "exited")
                ELSE /\ REPLY' = <<reply>>
                     /\ IF MatchesYes(reply)
                        THEN \E missing \in BOOLEAN :
                             \E o \in Outcomes("deploy_prod", <<"info", "read -p">> \o ProdCommands(missing)) :
                                 /\ steps' = steps \o o.done
                                 /\ Continue(o.ok, AfterDeploy("deploy_prod"))
                        ELSE /\ steps' = steps \o <<Entry("deploy_prod", "info", 0), Entry("deploy_prod", "read -p", 0)>>
                             /\ Continue(FALSE, "exited")
    /\ UNCHANGED <<args, FORCE, DRY_RUN, environment, validate_only, skip_validation, dry_run, force, validatorVars, poolVars>>

\* generate_report, and the end of main
generate_report ==
    /\ sh_pc = "generate_report"
    /\ \E o \in Outcomes("generate_report", <<"info", "cat > deployment_report">>) :
           /\ steps' = steps \o o.done
           /\ IF o.ok THEN sh_pc' = "exited" /\ exit_status' = <<0>>
              ELSE Continue(FALSE, "exited")
    /\ UNCHANGED <<args, FORCE, DRY_RUN, environment, validate_only, skip_validation, dry_run, force, REPLY, validatorVars, poolVars>>

\* no validator process of the model runs beside the deploy script
ValidatorNotStarted ==
    /\ version = "v12" /\ fs = GeneratedCorpus /\ hash_order = <<>> /\ results = <<>>
    /\ db_index = 1 /\ pc = FirstCheck("v12") /\ report = NoReport /\ saved = NotSaved
    /\ exit_code = <<>> /\ found_references = NoReferences /\ first_report = NoReport

InitDeploy ==
    /\ args \in CommandLines
    /\ FORCE \in EnvValues /\ DRY_RUN \in EnvValues
    /\ environment = "" /\ validate_only = FALSE /\ skip_validation = FALSE
    /\ dry_run = FALSE /\ force = FALSE /\ REPLY = <<>>
    /\ sh_pc = "main" /\ steps = <<>> /\ exit_status = <<>>
    /\ ValidatorNotStarted
    /\ NoService

NextDeploy ==
    \/ main
    \/ check_prerequisites
    \/ validate_scenarios
    \/ main_deploy
    \/ deploy_dev
    \/ deploy_staging
    \/ deploy_prod
    \/ generate_report

SpecDeploy == InitDeploy /\ [][NextDeploy]_vars

(***************************************************************************)
(* Properties of the deploy script                                         *)
(***************************************************************************)
\* the option is on the command line
Given(option) == option \in Range(args)

DeployFunctions == {"deploy_dev", "deploy_staging", "deploy_prod"}

\* positions of steps at which a deployment function, or the report
\* generation, is at work
DeploymentSteps == {i \in 1..Len(steps) : steps[i].fn \in DeployFunctions}
ReportSteps == {i \in 1..Len(steps) : steps[i].fn = "generate_report"}

\* positions at which the validator was run, and at which it exited with 0
ValidationSteps == {i \in 1..Len(steps) : steps[i].fn = "validate_scenarios"}
PassedValidationSteps == {i \in ValidationSteps : steps[i].status = 0}

\* the script has exited with a non-zero status
ExitedNonZero == sh_pc = "exited" /\ exit_status # <<>> /\ exit_status[1] # 0

\* C23 (deployment gating): unless --skip-validation is given, a deployment
\* function starts only after the scenario validation has run and exited
\* with 0; and when the validator exits non-zero the script exits non-zero
\* with no deployment function entered and no deployment report generated.
C23_DeploymentGating ==
    /\ ~Given("--skip-validation") =>
           \A i \in DeploymentSteps : \E j \in PassedValidationSteps : j < i
    /\ ValidationSteps # PassedValidationSteps =>
           ExitedNonZero /\ DeploymentSteps = {} /\ ReportSteps = {}

\* C23 witness: all environments deployed and reported after a validation
\* that passed
C23_Witness ==
    /\ ~Given("--skip-validation") /\ environment = "all"
    /\ PassedValidationSteps # {}
    /\ \E i \in DeploymentSteps : steps[i].fn = "deploy_prod" /\ steps[i].cmd = "deploy_monitoring"
    /\ ReportSteps # {}
    /\ exit_status = <<0>>

\* C23 witness: the validator has exited with 2 and the script with 1
C23_WitnessFailed ==
    /\ \E i \in ValidationSteps : steps[i].status = 2
    /\ environment \in Environments
    /\ exit_status = <<1>>

\* C24 (validate only): with --validate-only no deployment function and no
\* report generation is ever reached, whatever the environment and the other
\* options: the script exits right after the validation phase.
C24_ValidateOnly ==
    Given("--validate-only") =>
        /\ DeploymentSteps = {} /\ ReportSteps = {}
        /\ sh_pc \in {"main", "check_prerequisites", "validate_scenarios", "validate_only", "exited"}

\* C24 witness: a validation-only run for all environments has exited with 0
\* after the validator passed, --force given as well
C24_Witness ==
    /\ validate_only /\ Given("--force") /\ environment = "all"
    /\ PassedValidationSteps # {}
    /\ sh_pc = "exited" /\ exit_status = <<0>>

\* the commands that apply something
ApplyingCommands ==
    {"terraform apply", "deploy_service_layer", "deploy_critical_systems", "deploy_monitoring"}

\* C25 (dry run): with --dry-run nothing is applied, for every environment
\* and for all: no terraform apply, no service-layer deployment, no
\* critical-systems deployment and no monitoring deployment is reached.
C25_DryRun ==
    Given("--dry-run") => \A i \in 1..Len(steps) : steps[i].cmd \notin ApplyingCommands

\* C25 witness: a dry run over all environments has planned production and
\* exited with 0
C25_Witness ==
    /\ dry_run /\ environment = "all"
    /\ \E i \in DeploymentSteps : steps[i].fn = "deploy_dev" /\ steps[i].cmd = "terraform plan"
    /\ \E i \in DeploymentSteps : steps[i].fn = "deploy_staging" /\ steps[i].cmd = "terraform init"
    /\ \E i \in DeploymentSteps : steps[i].fn = "deploy_prod" /\ steps[i].cmd = "terraform plan"
    /\ exit_status = <<0>>

\* positions at which deploy_prod acts on production
ProductionActions ==
    {i \in DeploymentSteps :
        /\ steps[i].fn = "deploy_prod"
        /\ steps[i].cmd \in {"terraform init", "terraform plan", "deploy_critical_systems", "deploy_monitoring"}}

\* C26 (production authorization), as claimed: deploy_prod acts on production
\* only after --force was given or the operator answered yes, in any case of
\* the letters; any other answer ends the script with an error before any
\* production action.
C26_ProductionAuthorization ==
    /\ ProductionActions # {} =>
           Given("--force") \/ (REPLY # <<>> /\ MatchesYes(REPLY[1]))
    /\ REPLY # <<>> /\ ~MatchesYes(REPLY[1]) =>
           ExitedNonZero /\ ProductionActions = {}

\* What holds of the authorization: production is acted on only when FORCE
\* is true in the script's environment, by --force or inherited, or the
\* operator answered yes
C26_AuthorizedByEnvironment ==
    /\ ProductionActions # {} =>
           FORCE = "true" \/ (REPLY # <<>> /\ MatchesYes(REPLY[1]))
    /\ REPLY # <<>> /\ ~MatchesYes(REPLY[1]) =>
           ExitedNonZero /\ ProductionActions = {}

(***************************************************************************)
(* DatabaseService: the connection pools of the service layer.  Its        *)
(* methods are coroutines; a step of the model runs one coroutine from one *)
(* await to the next, as the event loop does.                              *)
(***************************************************************************)
\* Bound: how many DatabaseService calls are started in one behaviour.
MaxCalls == 4

\* the coroutines that call into the service
Callers == {"a", "b"}

\* the names the callers pass: configured, configured in another case of the
\* letters, not configured
DatabaseNames == {"pagila", "Chinook", "lego"}

\* DatabaseConnectionManager._connections
Configured == {"pagila", "chinook", "netflix"}

\* database_name.lower()
LowerName(name) == IF name = "Chinook" THEN "chinook" ELSE name

\* connection_manager.get_config: <<the configuration>>, <<>> for None
GetConfig(database_name) ==
    IF LowerName(database_name) \in Configured
    THEN <<[database |-> LowerName(database_name), scenario_type |-> "MIXED"]>>
    ELSE <<>>

\* A Python dict as the sequence of its items in insertion order
KeyList(d) == [i \in 1..Len(d) |-> d[i].key]
KeySet(d) == {d[i].key : i \in 1..Len(d)}
SetItem(d, k, v) ==
    IF k \in KeySet(d)
    THEN [i \in 1..Len(d) |-> IF d[i].key = k THEN [key |-> k, value |-> v] ELSE d[i]]
    ELSE Append(d, [key |-> k, value |-> v])
DelItem(d, k) == SelectSeq(d, LAMBDA item : item.key # k)

\* a caller that is in no call, and a call that has returned or raised
IdleTask == [op |-> "none", database_name |-> "", pc |-> "idle", pending |-> <<>>, outcome |-> "none"]
Returned(t, outcome) == [tasks[t] EXCEPT !.pc = "done", !.outcome = outcome]
CanCall(t) == tasks[t].pc \in {"idle", "done"} /\ calls < MaxCalls

\* initialize_pool up to its await: False without a configuration, else
\* asyncpg.create_pool is awaited
initialize_pool(t, database_name) ==
    /\ CanCall(t)
    /\ calls' = calls + 1
    /\ tasks' = [tasks EXCEPT ![t] =
                    [op |-> "initialize_pool", database_name |-> database_name, pending |-> <<>>,
                     pc |-> IF GetConfig(database_name) = <<>> THEN "done" ELSE "create_pool",
                     outcome |-> IF GetConfig(database_name) = <<>> THEN "False" ELSE "none"]]
    /\ UNCHANGED <<pools, connection_info, validatorVars, deployVars>>

\* Mutant of initialize_pool_created: the pool is stored, the connection
\* information is not
initialize_pool_created_NoInfo(t) ==
    /\ tasks[t].op = "initialize_pool" /\ tasks[t].pc = "create_pool"
    /\ \/ /\ pools' = SetItem(pools, tasks[t].database_name, [min_size |-> 2, max_size |-> 10])
          /\ connection_info' = connection_info
          /\ tasks' = [tasks EXCEPT ![t] = Returned(t, "True")]
       \/ /\ tasks' = [tasks EXCEPT ![t] = Returned(t, "False")]
          /\ UNCHANGED <<pools, connection_info>>
    /\ UNCHANGED <<calls, validatorVars, deployVars>>

\* initialize_pool after its await: the pool and the connection information
\* are stored and True returned, or create_pool raised and False is returned
initialize_pool_created(t) ==
    /\ tasks[t].op = "initialize_pool" /\ tasks[t].pc = "create_pool"
    /\ \/ /\ pools' = SetItem(pools, tasks[t].database_name, [min_size |-> 2, max_size |-> 10])
          /\ connection_info' = SetItem(connection_info, tasks[t].database_name,
                                    [database_name |-> tasks[t].database_name, connection_count |-> 2,
                                     scenario_type |-> GetConfig(tasks[t].database_name)[1].scenario_type])
          /\ tasks' = [tasks EXCEPT ![t] = Returned(t, "True")]
       \/ /\ tasks' = [tasks EXCEPT ![t] = Returned(t, "False")]
          /\ UNCHANGED <<pools, connection_info>>
    /\ UNCHANGED <<calls, validatorVars, deployVars>>

\* close_pool up to its await: nothing without a pool, else pool.close() is
\* awaited
close_pool(t, database_name) ==
    /\ CanCall(t)
    /\ calls' = calls + 1
    /\ tasks' = [tasks EXCEPT ![t] =
                    [op |-> "close_pool", database_name |-> database_name, pending |-> <<>>,
                     pc |-> IF database_name \in KeySet(pools) THEN "close" ELSE "done",
                     outcome |-> IF database_name \in KeySet(pools) THEN "none" ELSE "None"]]
    /\ UNCHANGED <<pools, connection_info, validatorVars, deployVars>>

\* del self._pools[database_name]; del self._connection_info[database_name]:
\* the maps afterwards, and whether one of the two raised KeyError
Deleted(database_name) ==
    [ pools |-> DelItem(pools, database_name),
      connection_info |-> IF database_name \in KeySet(pools)
                          THEN DelItem(connection_info, database_name) ELSE connection_info,
      raised |-> database_name \notin KeySet(pools) \/ database_name \notin KeySet(connection_info) ]

\* close_pool after its await: both entries are deleted, or pool.close()
\* raised
close_pool_closed(t) ==
    /\ tasks[t].op = "close_pool" /\ tasks[t].pc = "close"
    /\ \/ /\ pools' = Deleted(tasks[t].database_name).pools
          /\ connection_info' = Deleted(tasks[t].database_name).connection_info
          /\ tasks' = [tasks EXCEPT ![t] =
                          Returned(t, IF Deleted(tasks[t].database_name).raised THEN "KeyError" ELSE "None")]
       \/ /\ tasks' = [tasks EXCEPT ![t] = Returned(t, "Error")]
          /\ UNCHANGED <<pools, connection_info>>
    /\ UNCHANGED <<calls, validatorVars, deployVars>>

\* The loop of close_all_pools over the names left, run up to the next await:
\* close_pool returns at once for a name without a pool
RECURSIVE NextToClose(_, _)
NextToClose(names, open) ==
    IF names = <<>> THEN <<>>
    ELSE IF Head(names) \in open THEN names
    ELSE NextToClose(Tail(names), open)

\* the caller inside close_all_pools with the names left to close, at the
\* await of the first of them, or returned when none is left
Closing(names) ==
    IF names = <<>>
    THEN [op |-> "close_all_pools", database_name |-> "", pending |-> <<>>, pc |-> "done", outcome |-> "None"]
    ELSE [op |-> "close_all_pools", database_name |-> Head(names), pending |-> Tail(names),
          pc |-> "close", outcome |-> "none"]

\* close_all_pools up to its first await
close_all_pools(t) ==
    /\ CanCall(t)
    /\ calls' = calls + 1
    /\ tasks' = [tasks EXCEPT ![t] = Closing(KeyList(pools))]
    /\ UNCHANGED <<pools, connection_info, validatorVars, deployVars>>

\* close_all_pools after an await: the entries of the pool just closed are
\* deleted and the loop goes on; an exception of close_pool ends it
close_all_pools_closed(t) ==
    /\ tasks[t].op = "close_all_pools" /\ tasks[t].pc = "close"
    /\ \/ /\ pools' = Deleted(tasks[t].database_name).pools
          /\ connection_info' = Deleted(tasks[t].database_name).connection_info
          /\ tasks' = [tasks EXCEPT ![t] =
                          IF Deleted(tasks[t].database_name).raised
                          THEN Returned(t, "KeyError")
                          ELSE Closing(NextToClose(tasks[t].pending, KeySet(pools')))]
       \/ /\ tasks' = [tasks EXCEPT ![t] = Returned(t, "Error")]
          /\ UNCHANGED <<pools, connection_info>>
    /\ UNCHANGED <<calls, validatorVars, deployVars>>

\* DatabaseService.__init__, with the callers given
NewService(callers) ==
    /\ pools = <<>> /\ connection_info = <<>>
    /\ tasks = [t \in callers |-> IdleTask]
    /\ calls = 0
    /\ ValidatorNotStarted
    /\ DeployNotStarted

NextPools ==
    \/ \E t \in DOMAIN tasks, database_name \in DatabaseNames : initialize_pool(t, database_name)
    \/ \E t \in DOMAIN tasks : initialize_pool_created(t)
    \/ \E t \in DOMAIN tasks, database_name \in DatabaseNames : close_pool(t, database_name)
    \/ \E t \in DOMAIN tasks : close_pool_closed(t)
    \/ \E t \in DOMAIN tasks : close_all_pools(t)
    \/ \E t \in DOMAIN tasks : close_all_pools_closed(t)

\* one caller: every call returns before the next begins
InitPoolSequence == NewService({"a"})
SpecPoolSequence == InitPoolSequence /\ [][NextPools]_vars

\* two callers whose calls interleave at the awaits
InitPools == NewService(Callers)
SpecPools == InitPools /\ [][NextPools]_vars

(***************************************************************************)
(* Properties of the DatabaseService                                       *)
(***************************************************************************)
\* the callers that took the step, and the maps left as they were
Stepped == {t \in DOMAIN tasks : tasks'[t] # tasks[t]}
MapsUnchanged == pools' = pools /\ connection_info' = connection_info

\* C29 (pool bookkeeping): when the calls of initialize_pool, close_pool and
\* close_all_pools follow one another, _pools and _connection_info always
\* have the same names; an initialize_pool that fails, for an unknown
\* database or because the pool could not be created, returns False and
\* leaves both maps unchanged; close_pool for a database without a pool does
\* nothing; and when close_all_pools returns both maps are empty.
C29_PoolBookkeeping ==
    /\ [](KeySet(pools) = KeySet(connection_info))
    /\ [][\A t \in Stepped :
            /\ tasks'[t].op = "initialize_pool" /\ tasks'[t].outcome # "True" =>
                   /\ MapsUnchanged
                   /\ tasks'[t].pc = "done" => tasks'[t].outcome = "False"
            /\ tasks'[t].op = "close_pool" /\ tasks[t].pc # "close"
                   /\ tasks'[t].database_name \notin KeySet(pools) =>
                   tasks'[t].pc = "done" /\ tasks'[t].outcome = "None" /\ MapsUnchanged
            /\ tasks'[t].op = "close_all_pools" /\ tasks'[t].outcome = "None" =>
                   pools' = <<>> /\ connection_info' = <<>>
       ]_vars

\* C29 witness: with two pools open an initialize_pool has returned False
C29_Witness ==
    /\ DOMAIN tasks = {"a"}
    /\ tasks["a"].op = "initialize_pool" /\ tasks["a"].outcome = "False"
    /\ KeySet(pools) = {"pagila", "Chinook"}
    /\ KeySet(connection_info) = {"pagila", "Chinook"}

\* C29 witness: close_all_pools has returned after closing two pools
C29_WitnessClosedAll ==
    /\ DOMAIN tasks = {"a"}
    /\ tasks["a"].op = "close_all_pools" /\ tasks["a"].outcome = "None"
    /\ calls = 3
    /\ pools = <<>> /\ connection_info = <<>>

\* the callers inside close_pool or close_all_pools, or back from it
Closers == {t \in DOMAIN tasks : tasks[t].op \in {"close_pool", "close_all_pools"}}

\* C30 (interleaved shutdown), as claimed: when the closing of one database's
\* pool by two callers, by close_pool or close_all_pools, interleaves at the
\* await of pool.close(), each of them goes on after the await without
\* raising, an error of pool.close() itself apart, and the database's entries
\* are then gone from both maps.
C30_InterleavedClose ==
    [][\A t \in Stepped \cap Closers :
           tasks[t].pc = "close" /\ tasks'[t].outcome # "Error" =>
               /\ tasks'[t].outcome # "KeyError"
               /\ tasks[t].database_name \notin KeySet(pools') \cup KeySet(connection_info')
      ]_vars

\* What holds of an interleaved shutdown: the two maps keep the same names,
\* and only a closing call ever raises KeyError
C30_MapsAgree ==
    /\ KeySet(pools) = KeySet(connection_info)
    /\ \A t \in DOMAIN tasks : tasks[t].outcome = "KeyError" => t \in Closers

====
